---- MODULE Spec2Model ----
(***************************************************************************)
(* The inventory store of studfinder (src/src/storage/database.rs): one    *)
(* SQLite connection behind a std::sync::Mutex, a two-step migration       *)
(* ladder, and the piece repository built on it.                           *)
(*                                                                         *)
(* The committed content of the database file is the variable db.  Every   *)
(* operation runs its statements while it holds the mutex, so a whole      *)
(* transaction is one step: it is computed on a working copy and either    *)
(* committed (db' is the copy) or rolled back (db' = db).                   *)
(***************************************************************************)
EXTENDS Integers, Sequences, FiniteSets, TLC

\* ------------------------------------------------------------------ bounds

\* Calls the single caller of Spec may make.
MaxCalls == 3
\* Calls each of the two callers of SpecConc may make.
MaxConcCalls == 1
\* Statements the environment (disk, SQLite) may fail in one behaviour.
MaxFaults == 1
\* Calls of ExportManager a caller makes.
MaxCodecCalls == 2
\* Calls of StudFinder a caller makes.
MaxFacadeCalls == 2

\* ------------------------------------------------------- program constants

\* quantity is an i32 (core/piece.rs:15).
I32Max == 2147483647
I32Min == -I32Max - 1
\* ALTER TABLE ... ADD COLUMN confidence REAL NOT NULL DEFAULT 1.0, in hundredths.
DefaultConfidence == 100
\* The last version of the ladder (the `if version < 2` step).
LatestVersion == 2

\* The ExportFormat enum.
ExportFormats == { "Json", "Csv" }

Callers == {"c1", "c2"}
Ids == {"a", "b"}
NoCaller == "none"

\* The non-key, non-quantity columns of a submitted piece; confidence (an f32
\* in the code) is written in hundredths.
Descriptions ==
    { [part_number |-> "3001", color |-> "Red", category |-> "Brick", confidence |-> 95],
      [part_number |-> "3020", color |-> "Blue", category |-> "Plate", confidence |-> 50] }

AddQuantities == {1, I32Max}
SetQuantities == {5, -1}

MkPiece(i, d, q) ==
    [id |-> i, part_number |-> d.part_number, color |-> d.color,
     category |-> d.category, quantity |-> q, confidence |-> d.confidence]

\* The Piece struct: the values a caller can pass to add_piece.
Piece == { MkPiece(i, d, q) : i \in Ids, d \in Descriptions, q \in AddQuantities }

\* A row of the version-1 pieces table, which has no confidence column.
RowV1(p) ==
    [id |-> p.id, part_number |-> p.part_number, color |-> p.color,
     category |-> p.category, quantity |-> p.quantity]

\* ------------------------------------------------------------ the database

\* A database file with no table at all: what Connection::open creates.
EmptyDb ==
    [hasLedger |-> FALSE, ledger |-> {}, hasPieces |-> FALSE,
     hasConfidence |-> FALSE, indexes |-> {}, rows |-> {}]

Max(S) == CHOOSE x \in S : \A y \in S : y <= x

\* SELECT COALESCE(MAX(version), 0) FROM schema_version
MaxVersion(d) == IF d.ledger = {} THEN 0 ELSE Max(d.ledger)

\* A faulty variant of HasRow: the comparison of ids matches no row, in the lookup
\* and in the primary key alike.
HasRowNever(d, i) == FALSE

HasRow(d, i) == \E r \in d.rows : r.id = i
RowOf(d, i) == CHOOSE r \in d.rows : r.id = i

\* Results of one SQL statement: the working copy after it, or the SQLite error.
Done(d) == [ok |-> TRUE, db |-> d]
Failed(msg) == [ok |-> FALSE, source |-> msg]

\* CREATE TABLE IF NOT EXISTS schema_version (version INTEGER PRIMARY KEY, ...)
CreateSchemaVersionTable(d) == Done([d EXCEPT !.hasLedger = TRUE])

\* CREATE TABLE IF NOT EXISTS pieces (id, part_number, color, category, quantity)
CreatePiecesTable(d) ==
    IF d.hasPieces THEN Done(d)
    ELSE Done([d EXCEPT !.hasPieces = TRUE, !.hasConfidence = FALSE,
                        !.indexes = {}, !.rows = {}])

\* INSERT INTO schema_version (version) VALUES (v)
InsertVersion(d, v) ==
    IF ~d.hasLedger THEN Failed("no such table: schema_version")
    ELSE IF v \in d.ledger THEN Failed("UNIQUE constraint failed: schema_version.version")
    ELSE Done([d EXCEPT !.ledger = @ \cup {v}])

\* A faulty variant of AddConfidenceColumn: the column's default is 0.
AddConfidenceColumnDefaultZero(d) ==
    IF ~d.hasPieces THEN Failed("no such table: pieces")
    ELSE IF d.hasConfidence THEN Failed("duplicate column name: confidence")
    ELSE Done([d EXCEPT !.hasConfidence = TRUE,
                        !.rows = { [id |-> r.id, part_number |-> r.part_number,
                                    color |-> r.color, category |-> r.category,
                                    quantity |-> r.quantity,
                                    confidence |-> 0] : r \in @ }])

\* ALTER TABLE pieces ADD COLUMN confidence REAL NOT NULL DEFAULT 1.0
AddConfidenceColumn(d) ==
    IF ~d.hasPieces THEN Failed("no such table: pieces")
    ELSE IF d.hasConfidence THEN Failed("duplicate column name: confidence")
    ELSE Done([d EXCEPT !.hasConfidence = TRUE,
                        !.rows = { [id |-> r.id, part_number |-> r.part_number,
                                    color |-> r.color, category |-> r.category,
                                    quantity |-> r.quantity,
                                    confidence |-> DefaultConfidence] : r \in @ }])

\* A faulty variant of CreateIndex: the statement has no IF NOT EXISTS.
CreateIndexStrict(d, idx) ==
    IF ~d.hasPieces THEN Failed("no such table: main.pieces")
    ELSE IF idx \in d.indexes THEN Failed("index " \o idx \o " already exists")
    ELSE Done([d EXCEPT !.indexes = @ \cup {idx}])

\* CREATE INDEX IF NOT EXISTS <idx> ON pieces(<column>)
CreateIndex(d, idx) ==
    IF ~d.hasPieces THEN Failed("no such table: main.pieces")
    ELSE Done([d EXCEPT !.indexes = @ \cup {idx}])

\* DROP TABLE IF EXISTS pieces (its indexes go with it)
DropPiecesTable(d) ==
    Done([d EXCEPT !.hasPieces = FALSE, !.hasConfidence = FALSE,
                   !.indexes = {}, !.rows = {}])

\* DROP TABLE IF EXISTS schema_version
DropSchemaVersionTable(d) == Done([d EXCEPT !.hasLedger = FALSE, !.ledger = {}])

\* Preparing SELECT id, part_number, color, category, quantity, confidence FROM pieces
SelectPieces(d) ==
    IF ~d.hasPieces THEN Failed("no such table: pieces")
    ELSE IF ~d.hasConfidence THEN Failed("no such column: confidence")
    ELSE Done(d)

\* A faulty variant of InsertPiece: the INSERT names no confidence column, so the row
\* takes the column's default.
InsertPieceWithoutConfidence(d, p) ==
    IF ~d.hasPieces THEN Failed("no such table: pieces")
    ELSE IF HasRow(d, p.id) THEN Failed("UNIQUE constraint failed: pieces.id")
    ELSE Done([d EXCEPT !.rows = @ \cup {[p EXCEPT !.confidence = DefaultConfidence]}])

\* INSERT INTO pieces (id, part_number, color, category, quantity, confidence)
InsertPiece(d, p) ==
    IF ~d.hasPieces THEN Failed("no such table: pieces")
    ELSE IF ~d.hasConfidence THEN Failed("table pieces has no column named confidence")
    ELSE IF HasRow(d, p.id) THEN Failed("UNIQUE constraint failed: pieces.id")
    ELSE Done([d EXCEPT !.rows = @ \cup {p}])

\* A faulty variant of UpdateQuantityRow: the UPDATE has no WHERE clause.
UpdateQuantityRowWithoutWhere(d, i, q) ==
    IF ~d.hasPieces THEN Failed("no such table: pieces")
    ELSE Done([d EXCEPT !.rows = { [r EXCEPT !.quantity = q] : r \in @ }])

\* UPDATE pieces SET quantity = ?1 WHERE id = ?2
UpdateQuantityRow(d, i, q) ==
    IF ~d.hasPieces THEN Failed("no such table: pieces")
    ELSE Done([d EXCEPT !.rows = { IF r.id = i THEN [r EXCEPT !.quantity = q] ELSE r
                                   : r \in @ }])

\* A faulty variant of DeleteRow: the DELETE has no WHERE clause.
DeleteRowWithoutWhere(d, i) ==
    IF ~d.hasPieces THEN Failed("no such table: pieces")
    ELSE Done([d EXCEPT !.rows = {}])

\* DELETE FROM pieces WHERE id = ?
DeleteRow(d, i) ==
    IF ~d.hasPieces THEN Failed("no such table: pieces")
    ELSE Done([d EXCEPT !.rows = { r \in @ : r.id # i }])

\* The rows an UPDATE or DELETE ... WHERE id = i touches (rows_affected).
RowsAffected(d, i) == Cardinality({ r \in d.rows : r.id = i })

\* A statement that changes nothing by itself: BEGIN, COMMIT, a query.
NoChange(d) == Done(d)

\* ------------------------------------------------------------ transactions

\* The statement no fault is injected into.
NoFault == [mig |-> 0, operation |-> "none"]

Stmt(m, o, k, v) == [mig |-> m, operation |-> o, sql |-> k, v |-> v]

\* What one statement does to the working copy.
Apply(s, d) ==
    CASE s.sql = "create_schema_version" -> CreateSchemaVersionTable(d)
      [] s.sql = "create_pieces" -> CreatePiecesTable(d)
      [] s.sql = "insert_version" -> InsertVersion(d, s.v)
      [] s.sql = "add_confidence" -> AddConfidenceColumn(d)
      [] s.sql = "create_index_part_number" -> CreateIndex(d, "idx_part_number")
      [] s.sql = "create_index_color" -> CreateIndex(d, "idx_color")
      [] s.sql = "drop_pieces" -> DropPiecesTable(d)
      [] s.sql = "drop_schema_version" -> DropSchemaVersionTable(d)
      [] s.sql = "select_pieces" -> SelectPieces(d)
      [] s.sql = "insert_piece" -> InsertPiece(d, s.v)
      [] s.sql = "update_quantity" -> UpdateQuantityRow(d, s.v.id, s.v.quantity)
      [] s.sql = "delete_piece" -> DeleteRow(d, s.v)
      [] OTHER -> NoChange(d)

\* Runs stmts[i..] on the working copy; the first statement that fails (by
\* itself, or because the environment fails it: fault) ends the run, as `?` does.
RECURSIVE Exec(_, _, _, _)
Exec(work, stmts, i, fault) ==
    IF i > Len(stmts) THEN [ok |-> TRUE, db |-> work]
    ELSE LET s == stmts[i]
             r == Apply(s, work)
         IN  IF fault.mig = s.mig /\ fault.operation = s.operation
             THEN [ok |-> FALSE, stmt |-> s, source |-> "disk I/O error",
                   hit |-> TRUE, db |-> work]
             ELSE IF ~r.ok
             THEN [ok |-> FALSE, stmt |-> s, source |-> r.source,
                   hit |-> FALSE, db |-> work]
             ELSE Exec(r.db, stmts, i + 1, fault)

\* The migration to version 1, run when the version read is below 1.
Migration1 ==
    << Stmt(1, "create pieces table", "create_pieces", 0),
       Stmt(1, "update schema version", "insert_version", 1) >>

\* A faulty variant of Migration2: the index on color is not created.
Migration2WithoutColorIndex ==
    << Stmt(2, "add confidence column", "add_confidence", 0),
       Stmt(2, "create part_number index", "create_index_part_number", 0),
       Stmt(2, "update schema version", "insert_version", 2) >>

\* The migration to version 2, run when the version read is below 2.
Migration2 ==
    << Stmt(2, "add confidence column", "add_confidence", 0),
       Stmt(2, "create part_number index", "create_index_part_number", 0),
       Stmt(2, "create color index", "create_index_color", 0),
       Stmt(2, "update schema version", "insert_version", 2) >>

\* A faulty variant of InitStatements: the second step is gated by `version < 1`.
InitStatementsGatedAtOne(version) ==
    << Stmt(0, "begin transaction", "begin", 0),
       Stmt(0, "create schema_version table", "create_schema_version", 0),
       Stmt(0, "query schema version", "query", 0) >>
    \o (IF version < 1 THEN Migration1 ELSE << >>)
    \o (IF version < 1 THEN Migration2 ELSE << >>)
    \o << Stmt(0, "commit transaction", "commit", 0) >>

\* The statements of one init() for the schema version it read.
InitStatements(version) ==
    << Stmt(0, "begin transaction", "begin", 0),
       Stmt(0, "create schema_version table", "create_schema_version", 0),
       Stmt(0, "query schema version", "query", 0) >>
    \o (IF version < 1 THEN Migration1 ELSE << >>)
    \o (IF version < 2 THEN Migration2 ELSE << >>)
    \o << Stmt(0, "commit transaction", "commit", 0) >>

\* A faulty variant of ResetStatements: the pieces table is not dropped.
ResetStatementsKeepingPieces ==
    << Stmt(0, "begin transaction", "begin", 0),
       Stmt(0, "drop schema_version table", "drop_schema_version", 0),
       Stmt(0, "commit transaction", "commit", 0) >>

\* The statements of reset()'s own transaction.
ResetStatements ==
    << Stmt(0, "begin transaction", "begin", 0),
       Stmt(0, "drop pieces table", "drop_pieces", 0),
       Stmt(0, "drop schema_version table", "drop_schema_version", 0),
       Stmt(0, "commit transaction", "commit", 0) >>

\* ------------------------------------------------------------------ results

Ok == [ok |-> TRUE]
Err(e) == [ok |-> FALSE, err |-> e]

DatabaseError(o, src) == [kind |-> "Database", operation |-> o, source |-> src]
MigrationError(v, o, src) ==
    [kind |-> "Migration", version |-> v, operation |-> o, source |-> src]
DatabaseLockFailed(o) == [kind |-> "DatabaseLockFailed", operation |-> o]
DatabaseResetFailed(e) == [kind |-> "DatabaseResetFailed", source |-> e]
PieceNotFound(i) == [kind |-> "PieceNotFound", id |-> i]

\* A faulty variant of InitError: every map_err of init() builds the Database variant.
InitErrorGeneric(s, src) == DatabaseError(s.operation, src)

\* The map_err of the statement that failed in init().
InitError(s, src) ==
    IF s.mig = 0 THEN DatabaseError(s.operation, src)
    ELSE MigrationError(s.mig, s.operation, src)

\* The versions whose ledger row a run of stmts inserts, in the order it does.
RECURSIVE AppliedVersions(_)
AppliedVersions(stmts) ==
    IF stmts = << >> THEN << >>
    ELSE (IF Head(stmts).sql = "insert_version" THEN << Head(stmts).v >> ELSE << >>)
         \o AppliedVersions(Tail(stmts))

\* A faulty variant of InitTx: the statements run in autocommit mode, so what ran before
\* the failing statement stays.
InitTxWithoutRollback(d, fault) ==
    LET version == MaxVersion(CreateSchemaVersionTable(d).db)
        stmts == InitStatements(version)
        r == Exec(d, stmts, 1, fault)
    IN  IF r.ok
        THEN [db |-> r.db, res |-> [ok |-> TRUE, version |-> version,
                                    applied |-> AppliedVersions(stmts)],
              hit |-> FALSE]
        ELSE [db |-> r.db, res |-> Err(InitError(r.stmt, r.source)), hit |-> r.hit]

\* init()'s transaction on the committed database d: the database it leaves
\* (d itself when the transaction is dropped without commit) and its result.
InitTx(d, fault) ==
    LET version == MaxVersion(CreateSchemaVersionTable(d).db)
        stmts == InitStatements(version)
        r == Exec(d, stmts, 1, fault)
    IN  IF r.ok
        THEN [db |-> r.db, res |-> [ok |-> TRUE, version |-> version,
                                    applied |-> AppliedVersions(stmts)],
              hit |-> FALSE]
        ELSE [db |-> d, res |-> Err(InitError(r.stmt, r.source)), hit |-> r.hit]

\* The transaction of reset() that drops both tables.
ResetTx(d, fault) ==
    LET r == Exec(d, ResetStatements, 1, fault)
    IN  IF r.ok THEN [db |-> r.db, res |-> Ok, hit |-> FALSE]
        ELSE [db |-> d, res |-> Err(DatabaseError(r.stmt.operation, r.source)),
              hit |-> r.hit]

\* ----------------------------------------------------------- the repository

\* a + b leaves the i32 range.
Overflows(a, b) ==
    \/ b > 0 /\ a > I32Max - b
    \/ b < 0 /\ a < I32Min - b

\* a + b as a build without overflow checks computes it: modulo 2^32.
WrappingAdd(a, b) ==
    IF ~Overflows(a, b) THEN a + b
    ELSE IF b > 0 THEN (a - I32Max - 1) + (b - I32Max - 1)
    ELSE (a + I32Max + 1) + (b + I32Max + 1)

\* The quantity add_piece writes for an id that is already stored.
MergedQuantity(piece, existing) == WrappingAdd(piece.quantity, existing.quantity)

\* add_piece's lookup of the existing row.
AddPieceLookup ==
    << Stmt(0, "begin transaction", "begin", 0),
       Stmt(0, "prepare select statement", "select_pieces", 0),
       Stmt(0, "query existing piece", "query", 0) >>

\* add_piece's write: the merge when the id is stored, the insert when not.
AddPieceWrite(d, piece) ==
    (IF HasRow(d, piece.id)
     THEN << Stmt(0, "update piece quantity", "update_quantity",
                  [id |-> piece.id,
                   quantity |-> MergedQuantity(piece, RowOf(d, piece.id))]) >>
     ELSE << Stmt(0, "insert new piece", "insert_piece", piece) >>)
    \o << Stmt(0, "commit transaction", "commit", 0) >>

\* A faulty variant of AddPieceTx: tx.commit() is missing, so dropping the transaction
\* rolls the write back and add_piece still returns Ok.
AddPieceTxWithoutCommit(d, piece, fault, panics) ==
    LET r1 == Exec(d, AddPieceLookup, 1, fault)
        found == r1.ok /\ HasRow(d, piece.id)
        r2 == Exec(r1.db, AddPieceWrite(d, piece), 1, fault)
    IN  IF ~r1.ok
        THEN [db |-> d, res |-> Err(DatabaseError(r1.stmt.operation, r1.source)),
              hit |-> r1.hit, panic |-> FALSE]
        ELSE IF found /\ panics /\ Overflows(piece.quantity, RowOf(d, piece.id).quantity)
        THEN [db |-> d, res |-> Ok, hit |-> FALSE, panic |-> TRUE]
        ELSE IF ~r2.ok
        THEN [db |-> d, res |-> Err(DatabaseError(r2.stmt.operation, r2.source)),
              hit |-> r2.hit, panic |-> FALSE]
        ELSE [db |-> d,
              res |-> [ok |-> TRUE, branch |-> IF found THEN "update" ELSE "insert"],
              hit |-> FALSE, panic |-> FALSE]

\* A faulty variant of AddPieceTx: the statements run on the connection in autocommit
\* mode, so a write that ran before the failure stays.
AddPieceTxAutocommit(d, piece, fault, panics) ==
    LET r1 == Exec(d, AddPieceLookup, 1, fault)
        found == r1.ok /\ HasRow(d, piece.id)
        r2 == Exec(r1.db, AddPieceWrite(d, piece), 1, fault)
    IN  IF ~r1.ok
        THEN [db |-> d, res |-> Err(DatabaseError(r1.stmt.operation, r1.source)),
              hit |-> r1.hit, panic |-> FALSE]
        ELSE IF found /\ panics /\ Overflows(piece.quantity, RowOf(d, piece.id).quantity)
        THEN [db |-> d, res |-> Ok, hit |-> FALSE, panic |-> TRUE]
        ELSE IF ~r2.ok
        THEN [db |-> r2.db, res |-> Err(DatabaseError(r2.stmt.operation, r2.source)),
              hit |-> r2.hit, panic |-> FALSE]
        ELSE [db |-> r2.db,
              res |-> [ok |-> TRUE, branch |-> IF found THEN "update" ELSE "insert"],
              hit |-> FALSE, panic |-> FALSE]

\* add_piece(piece) on the committed database d.  panics: the build checks
\* arithmetic overflow, so `piece.quantity + existing_piece.quantity` panics
\* where it overflows; the transaction is then dropped by the unwinding.
AddPieceTx(d, piece, fault, panics) ==
    LET r1 == Exec(d, AddPieceLookup, 1, fault)
        found == r1.ok /\ HasRow(d, piece.id)
        r2 == Exec(r1.db, AddPieceWrite(d, piece), 1, fault)
    IN  IF ~r1.ok
        THEN [db |-> d, res |-> Err(DatabaseError(r1.stmt.operation, r1.source)),
              hit |-> r1.hit, panic |-> FALSE]
        ELSE IF found /\ panics /\ Overflows(piece.quantity, RowOf(d, piece.id).quantity)
        THEN [db |-> d, res |-> Ok, hit |-> FALSE, panic |-> TRUE]
        ELSE IF ~r2.ok
        THEN [db |-> d, res |-> Err(DatabaseError(r2.stmt.operation, r2.source)),
              hit |-> r2.hit, panic |-> FALSE]
        ELSE [db |-> r2.db,
              res |-> [ok |-> TRUE, branch |-> IF found THEN "update" ELSE "insert"],
              hit |-> FALSE, panic |-> FALSE]

\* get_piece(id): Ok(Some(row)), Ok(None) or an error; it writes nothing.
GetPieceStatements(i) ==
    << Stmt(0, "prepare select statement", "select_pieces", 0),
       Stmt(0, "query piece with id '" \o i \o "'", "query", 0) >>

\* A faulty variant of GetPieceTx: query_row's QueryReturnedNoRows is not turned into
\* None (no .optional()), so absence is an error.
GetPieceTxWithoutOptional(d, i, fault) ==
    LET r == Exec(d, GetPieceStatements(i), 1, fault)
    IN  IF ~r.ok
        THEN [db |-> d, res |-> Err(DatabaseError(r.stmt.operation, r.source)),
              hit |-> r.hit]
        ELSE IF ~HasRow(d, i)
        THEN [db |-> d,
              res |-> Err(DatabaseError("query piece with id '" \o i \o "'",
                                        "Query returned no rows")),
              hit |-> FALSE]
        ELSE [db |-> d, res |-> [ok |-> TRUE, piece |-> << RowOf(d, i) >>], hit |-> FALSE]

GetPieceTx(d, i, fault) ==
    LET r == Exec(d, GetPieceStatements(i), 1, fault)
    IN  IF ~r.ok
        THEN [db |-> d, res |-> Err(DatabaseError(r.stmt.operation, r.source)),
              hit |-> r.hit]
        ELSE [db |-> d,
              res |-> [ok |-> TRUE,
                       piece |-> IF HasRow(d, i) THEN << RowOf(d, i) >> ELSE << >>],
              hit |-> FALSE]

\* list_pieces(): every row (a Vec in the code; its order is the engine's).
ListPiecesStatements ==
    << Stmt(0, "prepare select statement", "select_pieces", 0),
       Stmt(0, "query all pieces", "query", 0),
       Stmt(0, "process piece row", "query", 0) >>

\* A faulty variant of ListPiecesTx: the query stops after its first row.
ListPiecesTxFirstRow(d, fault) ==
    LET r == Exec(d, ListPiecesStatements, 1, fault)
    IN  IF ~r.ok
        THEN [db |-> d, res |-> Err(DatabaseError(r.stmt.operation, r.source)),
              hit |-> r.hit]
        ELSE [db |-> d,
              res |-> [ok |-> TRUE,
                       pieces |-> IF d.rows = {} THEN {}
                                  ELSE { CHOOSE p \in d.rows : TRUE }],
              hit |-> FALSE]

ListPiecesTx(d, fault) ==
    LET r == Exec(d, ListPiecesStatements, 1, fault)
    IN  IF ~r.ok
        THEN [db |-> d, res |-> Err(DatabaseError(r.stmt.operation, r.source)),
              hit |-> r.hit]
        ELSE [db |-> d, res |-> [ok |-> TRUE, pieces |-> d.rows], hit |-> FALSE]

\* update_quantity(id, quantity): one UPDATE in autocommit mode.
UpdateQuantityStatements(i, q) ==
    << Stmt(0, "update quantity for piece '" \o i \o "'", "update_quantity",
            [id |-> i, quantity |-> q]) >>

\* A faulty variant of UpdateQuantityTx: rows_affected is not looked at.
UpdateQuantityTxUnchecked(d, i, q, fault) ==
    LET r == Exec(d, UpdateQuantityStatements(i, q), 1, fault)
    IN  IF ~r.ok
        THEN [db |-> d, res |-> Err(DatabaseError(r.stmt.operation, r.source)),
              hit |-> r.hit]
        ELSE [db |-> r.db, res |-> Ok, hit |-> FALSE]

UpdateQuantityTx(d, i, q, fault) ==
    LET r == Exec(d, UpdateQuantityStatements(i, q), 1, fault)
    IN  IF ~r.ok
        THEN [db |-> d, res |-> Err(DatabaseError(r.stmt.operation, r.source)),
              hit |-> r.hit]
        ELSE IF RowsAffected(d, i) = 0
        THEN [db |-> r.db, res |-> Err(PieceNotFound(i)), hit |-> FALSE]
        ELSE [db |-> r.db, res |-> Ok, hit |-> FALSE]

\* delete_piece(id): one DELETE in autocommit mode.
DeletePieceStatements(i) ==
    << Stmt(0, "delete piece '" \o i \o "'", "delete_piece", i) >>

DeletePieceTx(d, i, fault) ==
    LET r == Exec(d, DeletePieceStatements(i), 1, fault)
    IN  IF ~r.ok
        THEN [db |-> d, res |-> Err(DatabaseError(r.stmt.operation, r.source)),
              hit |-> r.hit]
        ELSE IF RowsAffected(d, i) = 0
        THEN [db |-> r.db, res |-> Err(PieceNotFound(i)), hit |-> FALSE]
        ELSE [db |-> r.db, res |-> Ok, hit |-> FALSE]

\* ------------------------------------------------------------------ callers

VARIABLES
    db,            \* the committed content of the database file
    lockHolder,    \* the caller that holds Database.conn's mutex, or NoCaller
    poisoned,      \* a caller panicked while it held the mutex
    pc,            \* where each caller is in its call
    cur,           \* the call each caller is in
    last,          \* the last call each caller returned from, with its result
    budget,        \* calls each caller may still make
    faultBudget,   \* statements the environment may still fail
    debugEnabled,  \* tracing is at DEBUG level (main.rs: --verbose)
    files,         \* the interchange files: their content by path
    config         \* the Config the StudFinder was built with

vars == << db, lockHolder, poisoned, pc, cur, last, budget, faultBudget, debugEnabled, files, config >>

NoArg == [none |-> TRUE]
\* version: the schema version the store had when the call took the mutex.
NoCall == [op |-> "none", arg |-> NoArg, version |-> 0]

\* The public operations of Database with the arguments callers pass.
Calls ==
    { [op |-> "init", arg |-> NoArg], [op |-> "reset", arg |-> NoArg],
      [op |-> "list_pieces", arg |-> NoArg] }
    \cup { [op |-> "add_piece", arg |-> p] : p \in Piece }
    \cup { [op |-> "get_piece", arg |-> [id |-> i]] : i \in Ids }
    \cup { [op |-> "delete_piece", arg |-> [id |-> i]] : i \in Ids }
    \cup { [op |-> "update_quantity", arg |-> [id |-> i, quantity |-> q]] :
           i \in Ids, q \in SetQuantities }

\* The operation name each function gives its DatabaseLockFailed error.
LockOperation(op) ==
    CASE op = "init" -> "initialize schema"
      [] op = "reset" -> "reset schema"
      [] op = "add_piece" -> "add piece"
      [] op = "get_piece" -> "get piece"
      [] op = "list_pieces" -> "list pieces"
      [] op = "update_quantity" -> "update quantity"
      [] op = "delete_piece" -> "delete piece"

StmtKey(s) == [mig |-> s.mig, operation |-> s.operation]
KeysOf(stmts) == { StmtKey(stmts[k]) : k \in DOMAIN stmts }

\* What the environment can do to a call that runs stmts: fail one of them, or none.
FaultsOf(stmts) == {NoFault} \cup KeysOf(stmts)

\* The pieces a store file of an earlier run may hold.
SeedPieces ==
    { MkPiece("a", CHOOSE d \in Descriptions : d.color = "Red", 2),
      MkPiece("b", CHOOSE d \in Descriptions : d.color = "Blue", I32Max) }

\* A store file left by a release whose ladder ended at version 1.
StoreV1(ps) ==
    [hasLedger |-> TRUE, ledger |-> {1}, hasPieces |-> TRUE,
     hasConfidence |-> FALSE, indexes |-> {}, rows |-> { RowV1(p) : p \in ps }]

\* A store file left by an earlier run of this release.
StoreV2(ps) ==
    [hasLedger |-> TRUE, ledger |-> {1, 2}, hasPieces |-> TRUE, hasConfidence |-> TRUE,
     indexes |-> {"idx_part_number", "idx_color"}, rows |-> ps]

\* The files Database::new can open.
InitialStores ==
    {EmptyDb} \cup { StoreV1(ps) : ps \in {{}, SeedPieces} }
    \cup { StoreV2(ps) : ps \in {{}, SeedPieces} }

\* No interchange file has been written.
NoFiles == << >>

\* The Config of a StudFinder: the format it exports in, and whether
\* database_path is ":memory:" (no file of that name ever exists).
Configs == [export_format : ExportFormats, in_memory : BOOLEAN]
DefaultConfig == [export_format |-> "Json", in_memory |-> FALSE]

InitCallers ==
    /\ lockHolder = NoCaller
    /\ files = NoFiles
    /\ config = DefaultConfig
    /\ poisoned = FALSE
    /\ pc = [t \in Callers |-> "idle"]
    /\ cur = [t \in Callers |-> NoCall]
    /\ last = [t \in Callers |-> [op |-> "none", arg |-> NoArg, res |-> Ok]]
    /\ debugEnabled \in BOOLEAN

\* One caller (one thread of one process) uses the store.
Init ==
    /\ db \in InitialStores
    /\ InitCallers
    /\ budget = [t \in Callers |-> IF t = "c1" THEN MaxCalls ELSE 0]
    /\ faultBudget = MaxFaults

\* Two threads share the Database; the environment fails no statement.
InitConc ==
    /\ db \in InitialStores
    /\ InitCallers
    /\ budget = [t \in Callers |-> MaxConcCalls]
    /\ faultBudget = 0

\* The caller returns r from its call; the guard that held the mutex is dropped.
Finish(t, r) ==
    /\ last' = [last EXCEPT ![t] = [op |-> cur[t].op, arg |-> cur[t].arg, res |-> r]]
    /\ cur' = [cur EXCEPT ![t] = NoCall]
    /\ pc' = [pc EXCEPT ![t] = "idle"]
    /\ lockHolder' = NoCaller

\* The caller panics while it holds the mutex: the guard is dropped by the
\* unwinding, which poisons the mutex.
Panic(t) ==
    /\ pc' = [pc EXCEPT ![t] = "panicked"]
    /\ lockHolder' = NoCaller
    /\ poisoned' = TRUE
    /\ UNCHANGED << cur, last >>

Spend(f, hit) ==
    /\ f = NoFault \/ faultBudget > 0
    /\ faultBudget' = IF hit THEN faultBudget - 1 ELSE faultBudget

\* A faulty variant of Call: lock() does not wait for the mutex to be free.
CallWithoutWaiting(t) ==
    /\ pc[t] = "idle"
    /\ budget[t] > 0
    /\ budget' = [budget EXCEPT ![t] = @ - 1]
    /\ \E c \in Calls :
         IF poisoned
         THEN /\ last' = [last EXCEPT ![t] =
                    [op |-> c.op, arg |-> c.arg,
                     res |-> Err(DatabaseLockFailed(LockOperation(c.op)))]]
              /\ UNCHANGED << lockHolder, pc, cur >>
         ELSE /\ lockHolder' = t
              /\ cur' = [cur EXCEPT ![t] =
                        [op |-> c.op, arg |-> c.arg, version |-> MaxVersion(db)]]
              /\ pc' = [pc EXCEPT ![t] = "run"]
              /\ UNCHANGED last
    /\ UNCHANGED << db, poisoned, faultBudget, debugEnabled, files, config >>

\* A faulty variant of Call: the poison is ignored
\* (lock().unwrap_or_else(PoisonError::into_inner)).
CallIgnoringPoison(t) ==
    /\ pc[t] = "idle"
    /\ budget[t] > 0
    /\ lockHolder = NoCaller
    /\ budget' = [budget EXCEPT ![t] = @ - 1]
    /\ \E c \in Calls :
         /\ lockHolder' = t
         /\ cur' = [cur EXCEPT ![t] =
                        [op |-> c.op, arg |-> c.arg, version |-> MaxVersion(db)]]
         /\ pc' = [pc EXCEPT ![t] = "run"]
         /\ UNCHANGED last
    /\ UNCHANGED << db, poisoned, faultBudget, debugEnabled, files, config >>

\* A caller calls an operation: self.conn.lock() returns once the mutex is
\* free, with an error when it is poisoned.
Call(t) ==
    /\ pc[t] = "idle"
    /\ budget[t] > 0
    /\ lockHolder = NoCaller
    /\ budget' = [budget EXCEPT ![t] = @ - 1]
    /\ \E c \in Calls :
         IF poisoned
         THEN /\ last' = [last EXCEPT ![t] =
                    [op |-> c.op, arg |-> c.arg,
                     res |-> Err(DatabaseLockFailed(LockOperation(c.op)))]]
              /\ UNCHANGED << lockHolder, pc, cur >>
         ELSE /\ lockHolder' = t
              /\ cur' = [cur EXCEPT ![t] =
                        [op |-> c.op, arg |-> c.arg, version |-> MaxVersion(db)]]
              /\ pc' = [pc EXCEPT ![t] = "run"]
              /\ UNCHANGED last
    /\ UNCHANGED << db, poisoned, faultBudget, debugEnabled, files, config >>

\* What reset() returns for the result of the init() it called.
ResetResult(r) == IF r.ok THEN Ok ELSE Err(DatabaseResetFailed(r.err))

\* init(), from the transaction to the commit, called by a caller or by reset().
\* With DEBUG enabled the closing debug! evaluates self.get_schema_version()
\* while `conn` is still in scope.
InitSchema(t) ==
    /\ lockHolder = t
    /\ \/ pc[t] = "run" /\ cur[t].op = "init"
       \/ pc[t] = "reinit_run"
    /\ \E f \in FaultsOf(InitStatements(MaxVersion(db))) :
         LET r == InitTx(db, f)
         IN  /\ Spend(f, r.hit)
             /\ db' = r.db
             /\ IF r.res.ok /\ debugEnabled
                THEN /\ pc' = [pc EXCEPT ![t] = "log"]
                     /\ UNCHANGED << lockHolder, cur, last >>
                ELSE Finish(t, IF cur[t].op = "reset" THEN ResetResult(r.res) ELSE r.res)
    /\ UNCHANGED << poisoned, budget, debugEnabled, files, config >>

\* get_schema_version() called from init(): self.conn.lock() on a mutex the
\* same thread holds.  std leaves the outcome open: the call never returns
\* (deadlock) or it panics.
InitLog(t) ==
    /\ pc[t] = "log"
    /\ lockHolder = t
    /\ \/ /\ pc' = [pc EXCEPT ![t] = "deadlocked"]
          /\ UNCHANGED << lockHolder, poisoned, cur, last >>
       \/ Panic(t)
    /\ UNCHANGED << db, budget, faultBudget, debugEnabled, files, config >>

\* reset(), its own block: both tables dropped in one transaction, then the
\* mutex released before init() is called.
ResetDrop(t) ==
    /\ pc[t] = "run"
    /\ cur[t].op = "reset"
    /\ lockHolder = t
    /\ \E f \in FaultsOf(ResetStatements) :
         LET r == ResetTx(db, f)
         IN  /\ Spend(f, r.hit)
             /\ db' = r.db
             /\ IF r.res.ok
                THEN /\ pc' = [pc EXCEPT ![t] = "reinit"]
                     /\ lockHolder' = NoCaller
                     /\ UNCHANGED << cur, last >>
                ELSE Finish(t, r.res)
    /\ UNCHANGED << poisoned, budget, debugEnabled, files, config >>

\* reset() calls self.init(), which takes the mutex again.
ResetInit(t) ==
    /\ pc[t] = "reinit"
    /\ lockHolder = NoCaller
    /\ IF poisoned
       THEN Finish(t, ResetResult(Err(DatabaseLockFailed(LockOperation("init")))))
       ELSE /\ lockHolder' = t
            /\ pc' = [pc EXCEPT ![t] = "reinit_run"]
            /\ UNCHANGED << cur, last >>
    /\ UNCHANGED << db, poisoned, budget, faultBudget, debugEnabled, files, config >>

AddPiece(t) ==
    /\ pc[t] = "run"
    /\ cur[t].op = "add_piece"
    /\ lockHolder = t
    /\ \E f \in FaultsOf(AddPieceLookup \o AddPieceWrite(db, cur[t].arg)),
          panics \in BOOLEAN :
         LET r == AddPieceTx(db, cur[t].arg, f, panics)
         IN  /\ Spend(f, r.hit)
             /\ db' = r.db
             /\ IF r.panic
                THEN Panic(t)
                ELSE Finish(t, r.res) /\ UNCHANGED poisoned
    /\ UNCHANGED << budget, debugEnabled, files, config >>

GetPiece(t) ==
    /\ pc[t] = "run"
    /\ cur[t].op = "get_piece"
    /\ lockHolder = t
    /\ \E f \in FaultsOf(GetPieceStatements(cur[t].arg.id)) :
         LET r == GetPieceTx(db, cur[t].arg.id, f)
         IN  Spend(f, r.hit) /\ db' = r.db /\ Finish(t, r.res)
    /\ UNCHANGED << poisoned, budget, debugEnabled, files, config >>

ListPieces(t) ==
    /\ pc[t] = "run"
    /\ cur[t].op = "list_pieces"
    /\ lockHolder = t
    /\ \E f \in FaultsOf(ListPiecesStatements) :
         LET r == ListPiecesTx(db, f)
         IN  Spend(f, r.hit) /\ db' = r.db /\ Finish(t, r.res)
    /\ UNCHANGED << poisoned, budget, debugEnabled, files, config >>

UpdateQuantity(t) ==
    /\ pc[t] = "run"
    /\ cur[t].op = "update_quantity"
    /\ lockHolder = t
    /\ \E f \in FaultsOf(UpdateQuantityStatements(cur[t].arg.id, cur[t].arg.quantity)) :
         LET r == UpdateQuantityTx(db, cur[t].arg.id, cur[t].arg.quantity, f)
         IN  Spend(f, r.hit) /\ db' = r.db /\ Finish(t, r.res)
    /\ UNCHANGED << poisoned, budget, debugEnabled, files, config >>

DeletePiece(t) ==
    /\ pc[t] = "run"
    /\ cur[t].op = "delete_piece"
    /\ lockHolder = t
    /\ \E f \in FaultsOf(DeletePieceStatements(cur[t].arg.id)) :
         LET r == DeletePieceTx(db, cur[t].arg.id, f)
         IN  Spend(f, r.hit) /\ db' = r.db /\ Finish(t, r.res)
    /\ UNCHANGED << poisoned, budget, debugEnabled, files, config >>

Next ==
    \E t \in Callers :
        \/ Call(t)
        \/ InitSchema(t)
        \/ InitLog(t)
        \/ ResetDrop(t)
        \/ ResetInit(t)
        \/ AddPiece(t)
        \/ GetPiece(t)
        \/ ListPieces(t)
        \/ UpdateQuantity(t)
        \/ DeletePiece(t)

Spec == Init /\ [][Next]_vars

\* What caller t does once its call has started.
Proceed(t) ==
    \/ InitSchema(t)
    \/ InitLog(t)
    \/ ResetDrop(t)
    \/ ResetInit(t)
    \/ AddPiece(t)
    \/ GetPiece(t)
    \/ ListPieces(t)
    \/ UpdateQuantity(t)
    \/ DeletePiece(t)

\* Two threads share the Database and the scheduler is fair: a thread that can
\* go on with its call eventually does.
SpecFair == InitConc /\ [][Next]_vars /\ \A t \in Callers : WF_vars(Proceed(t))

SpecConc == InitConc /\ [][Next]_vars

\* The statements of the two migration steps that change the schema (the
\* ledger inserts are the others).
SchemaStatements ==
    { (Migration1 \o Migration2)[k] : k \in DOMAIN (Migration1 \o Migration2) }
    \ { Stmt(m, "update schema version", "insert_version", m) : m \in 1..LatestVersion }

\* One schema statement of a migration step is attempted by itself on the
\* connection, outside init()'s version gate, with the step's map_err.
AttemptStatement(t) ==
    /\ pc[t] = "idle"
    /\ budget[t] > 0
    /\ lockHolder = NoCaller
    /\ ~poisoned
    /\ budget' = [budget EXCEPT ![t] = @ - 1]
    /\ \E s \in SchemaStatements :
         LET r == Apply(s, db)
         IN  /\ db' = IF r.ok THEN r.db ELSE db
             /\ last' = [last EXCEPT ![t] =
                   [op |-> "attempt", arg |-> s,
                    res |-> IF r.ok THEN Ok
                            ELSE Err(MigrationError(s.mig, s.operation, r.source))]]
    /\ UNCHANGED << lockHolder, poisoned, pc, cur, faultBudget, debugEnabled, files, config >>

\* One caller; the environment fails no statement.
InitDdl ==
    /\ db \in InitialStores
    /\ InitCallers
    /\ budget = [t \in Callers |-> IF t = "c1" THEN MaxCalls ELSE 0]
    /\ faultBudget = 0

NextDdl == Next \/ \E t \in Callers : AttemptStatement(t)

\* The store's operations, and the migration steps' schema statements attempted
\* one by one.
SpecDdl == InitDdl /\ [][NextDdl]_vars

\* -------------------------------------------------------- interchange text

\* A text (a String of the code) is a sequence of characters, a character a
\* string of length one.
Digits == << "0", "1", "2", "3", "4", "5", "6", "7", "8", "9" >>

IsDigit(c) == \E k \in 1..10 : Digits[k] = c
DigitValue(c) == (CHOOSE k \in 1..10 : Digits[k] = c) - 1

\* The decimal digits of n >= 0.
RECURSIVE FormatNat(_)
FormatNat(n) ==
    IF n < 10 THEN << Digits[n + 1] >>
    ELSE FormatNat(n \div 10) \o << Digits[(n % 10) + 1] >>

\* Display (and serde_json) for an i32.
FormatI32(n) ==
    IF n = I32Min
    THEN << "-", "2", "1", "4", "7", "4", "8", "3", "6", "4", "8" >>
    ELSE IF n < 0 THEN << "-" >> \o FormatNat(0 - n)
    ELSE FormatNat(n)

ParseOk(v) == [ok |-> TRUE, value |-> v]
ParseErr == [ok |-> FALSE]

\* The digits s[i..] added to the magnitude acc; an error where a character is
\* no digit or the value leaves the i32 range.
RECURSIVE ParseMagnitude(_, _, _, _)
ParseMagnitude(s, i, acc, neg) ==
    IF i > Len(s) THEN ParseOk(IF neg THEN 0 - acc ELSE acc)
    ELSE IF ~IsDigit(s[i]) THEN ParseErr
    ELSE LET d == DigitValue(s[i])
         IN  IF acc < I32Max \div 10 \/ (acc = I32Max \div 10 /\ d <= I32Max % 10)
             THEN ParseMagnitude(s, i + 1, acc * 10 + d, neg)
             ELSE IF neg /\ acc = I32Max \div 10 /\ d = (I32Max % 10) + 1 /\ i = Len(s)
             THEN ParseOk(I32Min)
             ELSE ParseErr

\* str::parse::<i32>: an optional sign, then one digit at least, nothing else.
ParseI32(s) ==
    IF s = << >> THEN ParseErr
    ELSE IF s[1] \in {"+", "-"}
    THEN IF Len(s) = 1 THEN ParseErr ELSE ParseMagnitude(s, 2, 0, s[1] = "-")
    ELSE ParseMagnitude(s, 1, 0, FALSE)

\* An f32 of the model is a number of hundredths: confidence 0.95 is 95.
\* Infinity stands for f32::INFINITY.
Infinity == I32Max

\* Display for an f32: the shortest decimal that reads back as the same value,
\* with no fraction for a whole number ("1", "0.5", "0.95"), and "inf".
FormatF32(c) ==
    IF c = Infinity THEN << "i", "n", "f" >> ELSE
    LET m == IF c < 0 THEN 0 - c ELSE c
        whole == FormatNat(m \div 100)
        frac == IF m % 100 = 0 THEN << >>
                ELSE IF m % 10 = 0 THEN << ".", Digits[((m % 100) \div 10) + 1] >>
                ELSE << ".", Digits[((m % 100) \div 10) + 1], Digits[(m % 10) + 1] >>
    IN  (IF c < 0 THEN << "-" >> ELSE << >>) \o whole \o frac

\* serde_json for an f32: as Display, but a whole number keeps ".0", and a
\* value that is not finite is written as null.
FormatF32Json(c) ==
    IF c = Infinity THEN << "n", "u", "l", "l" >>
    ELSE IF c % 100 = 0 THEN FormatF32(c) \o << ".", "0" >> ELSE FormatF32(c)

\* F applied to the value of x, which is computed once.
With(x, F(_)) == CHOOSE r \in { F(v) : v \in { x } } : TRUE

\* The position of the first c in s at or after i, Len(s) + 1 when there is none.
Find(s, c, i) ==
    LET at == { k \in i..Len(s) : s[k] = c }
    IN  IF at = {} THEN Len(s) + 1 ELSE CHOOSE k \in at : \A j \in at : k <= j

AllDigits(s) == \A k \in DOMAIN s : IsDigit(s[k])

\* The digits of a fraction as hundredths, rounded at the third digit.
Hundredths(f) ==
    LET d(k) == IF k <= Len(f) THEN DigitValue(f[k]) ELSE 0
    IN  d(1) * 10 + d(2) + (IF d(3) >= 5 THEN 1 ELSE 0)

\* str::parse::<f32> on decimal notation: an optional sign, digits, an optional
\* point and digits, with one digit at least ("5", "5.", ".5", "0.95"), or
\* "inf".  (No text here has an exponent, "infinity" or "nan".)
ParseF32(s) ==
    IF s \in { << "i", "n", "f" >>, << "+", "i", "n", "f" >> } THEN ParseOk(Infinity) ELSE
    LET signed == s # << >> /\ s[1] \in {"+", "-"}
        body == IF signed THEN SubSeq(s, 2, Len(s)) ELSE s
        p == Find(body, ".", 1)
        whole == SubSeq(body, 1, p - 1)
        frac == SubSeq(body, p + 1, Len(body))
        w == IF whole = << >> THEN ParseOk(0) ELSE ParseMagnitude(whole, 1, 0, FALSE)
    IN  IF whole = << >> /\ frac = << >> THEN ParseErr
        ELSE IF ~AllDigits(whole) \/ ~AllDigits(frac) \/ ~w.ok THEN ParseErr
        ELSE LET v == w.value * 100 + Hundredths(frac)
             IN  ParseOk(IF signed /\ s[1] = "-" THEN 0 - v ELSE v)

\* ------------------------------------------------------------- ExportManager

Config(msg) == [kind |-> "Config", message |-> msg]
Io(msg) == [kind |-> "Io", message |-> msg]

\* The field names of Piece, as serde and the CSV header write them.
NameId == << "i", "d" >>
NamePartNumber == << "p", "a", "r", "t", "_", "n", "u", "m", "b", "e", "r" >>
NameColor == << "c", "o", "l", "o", "r" >>
NameCategory == << "c", "a", "t", "e", "g", "o", "r", "y" >>
NameQuantity == << "q", "u", "a", "n", "t", "i", "t", "y" >>
NameConfidence == << "c", "o", "n", "f", "i", "d", "e", "n", "c", "e" >>

\* The texts of ts with sep between them.
RECURSIVE Join(_, _)
Join(ts, sep) ==
    IF ts = << >> THEN << >>
    ELSE IF Len(ts) = 1 THEN ts[1]
    ELSE ts[1] \o sep \o Join(Tail(ts), sep)

\* "id,part_number,color,category,quantity,confidence\n"
CsvHeader ==
    Join(<< NameId, NamePartNumber, NameColor, NameCategory, NameQuantity,
            NameConfidence >>, << "," >>) \o << "\n" >>

\* format!("{},{},{},{},{},{}\n", ...) of one piece.
CsvLine(p) ==
    Join(<< p.id, p.part_number, p.color, p.category, FormatI32(p.quantity),
            FormatF32(p.confidence) >>, << "," >>) \o << "\n" >>

\* The CSV arm of export_inventory: the header, then a line per piece.
RECURSIVE CsvLines(_)
CsvLines(pieces) ==
    IF pieces = << >> THEN << >> ELSE CsvLine(Head(pieces)) \o CsvLines(Tail(pieces))

ExportCsv(pieces) == CsvHeader \o CsvLines(pieces)

\* A faulty variant of Split: the text is cut at the first occurrence of c only.
SplitOnce(s, c) ==
    LET p == Find(s, c, 1)
    IN  IF p > Len(s) THEN << s >>
        ELSE << SubSeq(s, 1, p - 1), SubSeq(s, p + 1, Len(s)) >>

\* str::split(c): the texts between the occurrences of c, one more than there
\* are occurrences.
Split(s, c) ==
    LET at == { k \in DOMAIN s : s[k] = c }
        \* the position of the j-th c; 0 and Len(s) + 1 bound the text
        cut(j) == IF j = 0 THEN 0
                  ELSE IF j > Cardinality(at) THEN Len(s) + 1
                  ELSE CHOOSE k \in at : Cardinality({ q \in at : q < k }) = j - 1
    IN  [j \in 1..(Cardinality(at) + 1) |-> SubSeq(s, cut(j - 1) + 1, cut(j) - 1)]

\* str::lines(): the text is cut at each "\n", a "\r" before it is dropped, and
\* an empty piece after the last "\n" is no line.
StripCr(l) == IF l # << >> /\ l[Len(l)] = "\r" THEN SubSeq(l, 1, Len(l) - 1) ELSE l

Lines(data) ==
    LET parts == Split(data, "\n")
        kept == IF parts[Len(parts)] = << >> THEN SubSeq(parts, 1, Len(parts) - 1)
                ELSE parts
    IN  [k \in DOMAIN kept |->
            IF k < Len(parts) THEN StripCr(kept[k]) ELSE kept[k]]

\* A faulty variant of ImportCsvLines: a line whose quantity or confidence does not
\* parse is passed over like a line without six fields.
RECURSIVE ImportCsvLinesLenient(_, _, _)
ImportCsvLinesLenient(lines, k, pieces) ==
    IF k > Len(lines) THEN [ok |-> TRUE, pieces |-> pieces]
    ELSE LET fields == Split(lines[k], ",")
             quantity == ParseI32(fields[5])
             confidence == ParseF32(fields[6])
         IN  IF Len(fields) = 6 /\ quantity.ok /\ confidence.ok
             THEN ImportCsvLinesLenient(lines, k + 1,
                      Append(pieces,
                             [id |-> fields[1], part_number |-> fields[2],
                              color |-> fields[3], category |-> fields[4],
                              quantity |-> quantity.value,
                              confidence |-> confidence.value]))
             ELSE ImportCsvLinesLenient(lines, k + 1, pieces)

\* The loop of the CSV arm of import_inventory from line k on: a line of six
\* fields gives a piece or ends the import with an error; any other line is
\* passed over.
RECURSIVE ImportCsvLines(_, _, _)
ImportCsvLines(lines, k, pieces) ==
    IF k > Len(lines) THEN [ok |-> TRUE, pieces |-> pieces]
    ELSE LET fields == Split(lines[k], ",")
             quantity == ParseI32(fields[5])
             confidence == ParseF32(fields[6])
         IN  IF Len(fields) = 6
             THEN IF ~quantity.ok THEN Err(Config("Failed to parse quantity"))
                  ELSE IF ~confidence.ok THEN Err(Config("Failed to parse confidence"))
                  ELSE ImportCsvLines(lines, k + 1,
                           Append(pieces,
                                  [id |-> fields[1], part_number |-> fields[2],
                                   color |-> fields[3], category |-> fields[4],
                                   quantity |-> quantity.value,
                                   confidence |-> confidence.value]))
             ELSE ImportCsvLines(lines, k + 1, pieces)

\* The CSV arm of import_inventory: data.lines().skip(1).
ImportCsv(data) == ImportCsvLines(Lines(data), 2, << >>)

\* A faulty variant of JsonEscape: the characters of a string are written as they are.
JsonEscapeNone(c) == << c >>

\* A string as serde_json writes it: quoted, with quote, backslash and control
\* characters escaped.
JsonEscape(c) ==
    CASE c = "\"" -> << "\\", "\"" >>
      [] c = "\\" -> << "\\", "\\" >>
      [] c = "\n" -> << "\\", "n" >>
      [] c = "\r" -> << "\\", "r" >>
      [] c = "\t" -> << "\\", "t" >>
      [] OTHER -> << c >>

RECURSIVE JsonEscaped(_)
JsonEscaped(t) ==
    IF t = << >> THEN << >> ELSE JsonEscape(Head(t)) \o JsonEscaped(Tail(t))

JsonString(t) == << "\"" >> \o JsonEscaped(t) \o << "\"" >>

\* One member line of a pretty-printed object: four spaces, "name": value.
JsonMember(name, value) ==
    << " ", " ", " ", " " >> \o JsonString(name) \o << ":", " " >> \o value

\* A piece as to_string_pretty writes it inside the array.
JsonObject(p) ==
    << " ", " ", "{", "\n" >>
    \o Join(<< JsonMember(NameId, JsonString(p.id)),
               JsonMember(NamePartNumber, JsonString(p.part_number)),
               JsonMember(NameColor, JsonString(p.color)),
               JsonMember(NameCategory, JsonString(p.category)),
               JsonMember(NameQuantity, FormatI32(p.quantity)),
               JsonMember(NameConfidence, FormatF32Json(p.confidence)) >>,
            << ",", "\n" >>)
    \o << "\n", " ", " ", "}" >>

\* serde_json::to_string_pretty(pieces).
ExportJson(pieces) ==
    IF pieces = << >> THEN << "[", "]" >>
    ELSE << "[", "\n" >>
         \o Join([k \in DOMAIN pieces |-> JsonObject(pieces[k])], << ",", "\n" >>)
         \o << "\n", "]" >>

\* serde_json::from_str::<Vec<Piece>>.  A step of the parser gives the position
\* after what it read and the value, or fails.
JsonFail == [ok |-> FALSE]
JsonAt(i, v) == [ok |-> TRUE, pos |-> i, value |-> v]

JsonWhitespace == { " ", "\n", "\r", "\t" }

RECURSIVE SkipWs(_, _)
SkipWs(s, i) ==
    IF i <= Len(s) /\ s[i] \in JsonWhitespace THEN SkipWs(s, i + 1) ELSE i

\* s has the character c at i.
At(s, i, c) == i <= Len(s) /\ s[i] = c

\* The character an escape stands for (\b, \f and \u are in no file here).
JsonUnescape(c) ==
    CASE c = "n" -> "\n" [] c = "r" -> "\r" [] c = "t" -> "\t" [] OTHER -> c

\* The rest of a string after its opening quote.
RECURSIVE JsonStringBody(_, _, _)
JsonStringBody(s, i, acc) ==
    IF i > Len(s) THEN JsonFail
    ELSE IF s[i] = "\"" THEN JsonAt(i + 1, acc)
    ELSE IF s[i] = "\\"
    THEN IF i < Len(s) /\ s[i + 1] \in { "\"", "\\", "/", "n", "r", "t" }
         THEN JsonStringBody(s, i + 2, Append(acc, JsonUnescape(s[i + 1])))
         ELSE JsonFail
    ELSE IF s[i] \in { "\n", "\r", "\t" } THEN JsonFail
    ELSE JsonStringBody(s, i + 1, Append(acc, s[i]))

ParseJsonString(s, i) ==
    IF At(s, i, "\"") THEN JsonStringBody(s, i + 1, << >>) ELSE JsonFail

\* The end of the run of number characters that starts at i.
RECURSIVE NumberEnd(_, _)
NumberEnd(s, i) ==
    IF i <= Len(s) /\ (IsDigit(s[i]) \/ s[i] \in { "-", "+", "." })
    THEN NumberEnd(s, i + 1) ELSE i

\* A JSON number without exponent: -? (0 | [1-9][0-9]*) (. [0-9]+)?
ValidJsonNumber(tok) ==
    LET body == IF tok # << >> /\ tok[1] = "-" THEN Tail(tok) ELSE tok
        p == Find(body, ".", 1)
        whole == SubSeq(body, 1, p - 1)
        frac == SubSeq(body, p + 1, Len(body))
    IN  /\ whole # << >> /\ AllDigits(whole)
        /\ Len(whole) = 1 \/ whole[1] # "0"
        /\ p <= Len(body) => (frac # << >> /\ AllDigits(frac))

\* A number member, an i32 (an integer in range) or an f32 (any number).
ParseJsonNumber(s, i, integer) ==
    With(NumberEnd(s, i), LAMBDA e :
    With(SubSeq(s, i, e - 1), LAMBDA tok :
        IF ~ValidJsonNumber(tok) THEN JsonFail
        ELSE IF ~integer
        THEN With(ParseF32(tok), LAMBDA v :
                 IF v.ok THEN JsonAt(e, v.value) ELSE JsonFail)
        ELSE IF Find(tok, ".", 1) <= Len(tok) THEN JsonFail
        ELSE With(ParseI32(tok), LAMBDA v :
                 IF v.ok THEN JsonAt(e, v.value) ELSE JsonFail)))

\* The value of the member named key: of the field's type for a field of
\* Piece, any string or number (which is ignored) for another name.
ParseJsonValue(s, i, key) ==
    IF key \in { NameQuantity, NameConfidence } THEN ParseJsonNumber(s, i, key = NameQuantity)
    ELSE IF key \in { NameId, NamePartNumber, NameColor, NameCategory } \/ At(s, i, "\"")
    THEN ParseJsonString(s, i)
    ELSE With(NumberEnd(s, i), LAMBDA e :
             IF ValidJsonNumber(SubSeq(s, i, e - 1)) THEN JsonAt(e, 0) ELSE JsonFail)

PieceFields ==
    { NameId, NamePartNumber, NameColor, NameCategory, NameQuantity, NameConfidence }

\* The fields read so far with the one named key, when it is a field of Piece.
Put(got, key, value) ==
    IF key \in PieceFields THEN (key :> value) @@ got ELSE got

\* The Piece of the six fields read.
PieceOf(got) ==
    [id |-> got[NameId], part_number |-> got[NamePartNumber],
     color |-> got[NameColor], category |-> got[NameCategory],
     quantity |-> got[NameQuantity], confidence |-> got[NameConfidence]]

\* The members of an object from position i (at a name) on; got maps the
\* fields read so far to their values.  A field given twice or not at all
\* fails.
RECURSIVE ParseJsonMembers(_, _, _)
ParseJsonMembers(s, i, got) ==
    With(ParseJsonString(s, i), LAMBDA key :
        IF ~key.ok THEN JsonFail
        ELSE IF key.value \in DOMAIN got THEN JsonFail
        ELSE With(SkipWs(s, key.pos), LAMBDA colon :
        IF ~At(s, colon, ":") THEN JsonFail
        ELSE With(ParseJsonValue(s, SkipWs(s, colon + 1), key.value), LAMBDA value :
        IF ~value.ok THEN JsonFail
        ELSE With(<< SkipWs(s, value.pos), Put(got, key.value, value.value) >>,
                  LAMBDA v :
        IF At(s, v[1], ",") THEN ParseJsonMembers(s, SkipWs(s, v[1] + 1), v[2])
        ELSE IF At(s, v[1], "}") /\ DOMAIN v[2] = PieceFields
        THEN JsonAt(v[1] + 1, PieceOf(v[2]))
        ELSE JsonFail))))

\* A Piece: an object with the six fields.
ParseJsonPiece(s, i) ==
    IF At(s, i, "{") THEN ParseJsonMembers(s, SkipWs(s, i + 1), << >>) ELSE JsonFail

\* The elements of the array from position i (at an element) on.
RECURSIVE ParseJsonElements(_, _, _)
ParseJsonElements(s, i, pieces) ==
    With(ParseJsonPiece(s, i), LAMBDA piece :
        IF ~piece.ok THEN JsonFail
        ELSE With(<< SkipWs(s, piece.pos), Append(pieces, piece.value) >>, LAMBDA v :
        IF At(s, v[1], ",") THEN ParseJsonElements(s, SkipWs(s, v[1] + 1), v[2])
        ELSE IF At(s, v[1], "]") THEN JsonAt(v[1] + 1, v[2])
        ELSE JsonFail))

\* The array of pieces that starts at position open.
ParseJsonArray(s, open) ==
    IF ~At(s, open, "[") THEN JsonFail
    ELSE With(SkipWs(s, open + 1), LAMBDA first :
             IF At(s, first, "]") THEN JsonAt(first + 1, << >>)
             ELSE ParseJsonElements(s, first, << >>))

\* The JSON arm of import_inventory: the whole text is one array of pieces.
ImportJson(data) ==
    With(ParseJsonArray(data, SkipWs(data, 1)), LAMBDA r :
        IF r.ok /\ SkipWs(data, r.pos) > Len(data)
        THEN [ok |-> TRUE, pieces |-> r.value]
        ELSE Err(Config("Failed to parse JSON data")))

\* The last position of c in s, 0 when there is none.
LastIndex(s, c) ==
    LET at == { k \in DOMAIN s : s[k] = c }
    IN  IF at = {} THEN 0 ELSE CHOOSE k \in at : \A j \in at : j <= k

NoExtension == [some |-> FALSE]
SomeExtension(e) == [some |-> TRUE, value |-> e]

\* Path::extension(): what follows the last "." of the file name, when the name
\* has one that is not its first character.
Extension(path) ==
    LET name == SubSeq(path, LastIndex(path, "/") + 1, Len(path))
        dot == LastIndex(name, ".")
    IN  IF dot <= 1 THEN NoExtension
        ELSE SomeExtension(SubSeq(name, dot + 1, Len(name)))

ExtJson == << "j", "s", "o", "n" >>

\* What export_inventory writes for pieces in the format.
ExportText(pieces, format) ==
    IF format = "Json" THEN ExportJson(pieces) ELSE ExportCsv(pieces)

\* A path can be written when its directory exists; the files here are in the
\* working directory, and no directory "x" is there.
Writable(path) == LastIndex(path, "/") = 0

\* ExportManager::export_inventory(pieces, path, format) on the files fs.
ExportFile(fs, pieces, path, format) ==
    IF Writable(path)
    THEN [files |-> (path :> ExportText(pieces, format)) @@ fs, res |-> Ok]
    ELSE [files |-> fs, res |-> Err(Io("No such file or directory"))]

\* An import that chooses the arm by what the file holds: the JSON arm for a
\* text that opens an array.
ImportFileByContent(fs, path) ==
    IF path \notin DOMAIN fs THEN Err(Io("No such file or directory"))
    ELSE IF At(fs[path], 1, "[") THEN ImportJson(fs[path])
    ELSE ImportCsv(fs[path])

\* ExportManager::import_inventory(path) on the files fs: the extension of the
\* path chooses the arm.
ImportFile(fs, path) ==
    IF path \notin DOMAIN fs THEN Err(Io("No such file or directory"))
    ELSE IF Extension(path) = SomeExtension(ExtJson) THEN ImportJson(fs[path])
    ELSE ImportCsv(fs[path])

\* ------------------------------------------------------ interchange callers

PathJson == << "b", ".", "j", "s", "o", "n" >>
PathCsv == << "b", ".", "c", "s", "v" >>
PathBare == << "b" >>
PathNoDir == << "x", "/", "b", ".", "c", "s", "v" >>
Paths == { PathJson, PathCsv, PathBare, PathNoDir }

\* Pieces a caller may hold in memory: the fields of the tests' pieces, and
\* texts with the characters the two formats give a meaning to.
PieceSamples ==
    << [id |-> << "a" >>, part_number |-> << "3", "0", "0", "1" >>,
        color |-> << "R", "e", "d" >>, category |-> << "B", "r", "i", "c", "k" >>,
        quantity |-> 1, confidence |-> 95],
       [id |-> << "b" >>, part_number |-> << "3", "0", "2", "0" >>,
        color |-> << >>, category |-> << "P", " ", "1" >>,
        quantity |-> -2, confidence |-> 100],
       [id |-> << "c" >>, part_number |-> << "3", "\"", "\\" >>,
        color |-> << "B", "l", "u", "e" >>, category |-> << "{", "}" >>,
        quantity |-> I32Max, confidence |-> 0],
       [id |-> << "d" >>, part_number |-> << "4" >>,
        color |-> << "R", ",", "G" >>, category |-> << "B" >>,
        quantity |-> 3, confidence |-> 50],
       [id |-> << "e" >>, part_number |-> << "5" >>,
        color |-> << "R" >>, category |-> << "B", "\n", "P" >>,
        quantity |-> 4, confidence |-> 5],
       [id |-> << "f" >>, part_number |-> << "6" >>,
        color |-> << "R" >>, category |-> << "B" >>,
        quantity |-> 5, confidence |-> Infinity] >>

\* The lists a caller exports: none, one or two of the pieces.
PieceLists ==
    { << >> } \cup { << PieceSamples[k] >> : k \in DOMAIN PieceSamples }
    \cup { << PieceSamples[k], PieceSamples[k + 1] >> : k \in 1..(Len(PieceSamples) - 1) }
    \cup { << PieceSamples[2], PieceSamples[1] >> }

\* The data lines of files another program wrote.
LineGood == << "a", ",", "1", ",", "R", ",", "B", ",", "2", ",", "0", ".", "5" >>
LineFive == << "b", ",", "1", ",", "R", ",", "B", ",", "2" >>
LineSeven == << "b", ",", "1", ",", "R", ",", "G", ",", "B", ",", "2", ",", "1" >>
LineBadQuantity == << "b", ",", "1", ",", "R", ",", "B", ",", "x", ",", "1" >>
LineBadConfidence == << "b", ",", "1", ",", "R", ",", "B", ",", "2", ",", "x" >>
LineBadBoth == << "b", ",", "1", ",", "R", ",", "B", ",", "2", ".", "0", ",", "." >>

\* A CSV file of the header and the lines, each ended by eol.
CsvFile(lines, eol) ==
    Join(<< SubSeq(CsvHeader, 1, Len(CsvHeader) - 1) >> \o lines, eol) \o eol

ForeignTexts ==
    { CsvFile(<< LineGood, l >>, << "\n" >>) :
        l \in { LineFive, LineSeven, LineBadQuantity, LineBadConfidence, LineBadBoth,
                << >> } }
    \cup { CsvFile(<< LineGood, LineGood >>, << "\r", "\n" >>) }

\* The files of the working directory when the program starts: none, or one
\* that another program wrote.
InitialFiles ==
    { NoFiles } \cup { p :> text : p \in { PathCsv, PathJson }, text \in ForeignTexts }

InitCodec ==
    /\ db = EmptyDb
    /\ files \in InitialFiles
    /\ config = DefaultConfig
    /\ lockHolder = NoCaller
    /\ poisoned = FALSE
    /\ pc = [t \in Callers |-> "idle"]
    /\ cur = [t \in Callers |-> NoCall]
    /\ last = [t \in Callers |-> [op |-> "none", arg |-> NoArg, res |-> Ok]]
    /\ debugEnabled = FALSE
    /\ budget = [t \in Callers |-> IF t = "c1" THEN MaxCodecCalls ELSE 0]
    /\ faultBudget = 0

\* A caller exports a list of pieces it holds.
ExportInventory(t) ==
    /\ pc[t] = "idle"
    /\ budget[t] > 0
    /\ budget' = [budget EXCEPT ![t] = @ - 1]
    /\ \E pieces \in PieceLists, path \in Paths, format \in ExportFormats :
         LET r == ExportFile(files, pieces, path, format)
         IN  /\ files' = r.files
             /\ last' = [last EXCEPT ![t] =
                   [op |-> "export_inventory",
                    arg |-> [pieces |-> pieces, path |-> path, format |-> format],
                    res |-> r.res]]
    /\ UNCHANGED << db, lockHolder, poisoned, pc, cur, faultBudget, debugEnabled, config >>

\* A caller imports a file.
ImportInventory(t) ==
    /\ pc[t] = "idle"
    /\ budget[t] > 0
    /\ budget' = [budget EXCEPT ![t] = @ - 1]
    /\ \E path \in Paths :
         last' = [last EXCEPT ![t] =
             [op |-> "import_inventory", arg |-> [path |-> path],
              res |-> ImportFile(files, path)]]
    /\ UNCHANGED << db, files, lockHolder, poisoned, pc, cur, faultBudget, debugEnabled, config >>

NextCodec == \E t \in Callers : ExportInventory(t) \/ ImportInventory(t)

\* A caller of ExportManager, which keeps no state but the files.
SpecCodec == InitCodec /\ [][NextCodec]_vars

\* -------------------------------------------------- the facade's database

\* StudFinderError as src/db.rs builds it, and the errors of anyhow.
Database(src) == [kind |-> "Database", source |-> src]
DatabaseInitFailed(msg) == [kind |-> "DatabaseInitFailed", message |-> msg]
Context(msg, e) == [kind |-> "Context", context |-> msg, source |-> e]
Message(msg) == [kind |-> "Message", message |-> msg]

\* What the build and the platform leave open: whether `+` on i32 panics on
\* overflow or wraps, and whether lock() on a mutex the thread already holds
\* never returns or panics.
Builds == [overflow_checks : BOOLEAN, relock : { "hangs", "panics" }]

\* The builds as far as arithmetic goes: those a call that locks once can
\* tell apart.
Arithmetics == { b \in Builds : b.relock = "hangs" }

\* A call that returned r and left the database d.
Returns(d, r) == [db |-> d, fate |-> "returns", res |-> r]
Returned(o) == o.fate = "returns" /\ o.res.ok

\* db.rs init(): the statements of storage/database.rs; a failure inside a
\* migration step is DatabaseInitFailed.  With DEBUG enabled the closing debug!
\* calls get_schema_version(), which locks the mutex `conn` still holds.
DbInit(d, dbg, b) ==
    LET version == MaxVersion(CreateSchemaVersionTable(d).db)
        r == Exec(d, InitStatements(version), 1, NoFault)
    IN  IF ~r.ok
        THEN Returns(d, Err(IF r.stmt.mig = 0 THEN Database(r.source)
                            ELSE DatabaseInitFailed(r.source)))
        ELSE IF dbg THEN [db |-> r.db, fate |-> b.relock, res |-> Ok]
        ELSE Returns(r.db, Ok)

\* db.rs reset(): both tables dropped in one transaction, then init().
DbReset(d, dbg, b) ==
    LET r == Exec(d, ResetStatements, 1, NoFault)
    IN  IF ~r.ok THEN Returns(d, Err(Database(r.source))) ELSE DbInit(r.db, dbg, b)

\* db.rs add_piece(): the lookup, then the merge or the insert, in one
\* transaction.
DbAddPiece(d, piece, b) ==
    LET r == AddPieceTx(d, piece, NoFault, b.overflow_checks)
    IN  IF r.panic THEN [db |-> d, fate |-> "panics", res |-> Ok]
        ELSE Returns(r.db, IF r.res.ok THEN Ok ELSE Err(Database(r.res.err.source)))

\* db.rs list_pieces(): the rows, in the order the engine gives them.
DbListPieces(d) ==
    LET r == ListPiecesTx(d, NoFault)
    IN  IF r.res.ok THEN [ok |-> TRUE, pieces |-> d.rows]
        ELSE Err(Database(r.res.err.source))

\* db.rs get_piece(): Some(row), None or the statement's error.
DbGetPiece(d, i) ==
    LET r == GetPieceTx(d, i, NoFault)
    IN  Returns(d, IF r.res.ok THEN r.res ELSE Err(Database(r.res.err.source)))

\* db.rs update_quantity(): the UPDATE, whose count of rows is dropped.
DbUpdateQuantity(d, i, q) ==
    LET r == Exec(d, UpdateQuantityStatements(i, q), 1, NoFault)
    IN  IF r.ok THEN Returns(r.db, Ok) ELSE Returns(d, Err(Database(r.source)))

\* db.rs delete_piece(): the DELETE, whose count of rows is dropped.
DbDeletePiece(d, i) ==
    LET r == Exec(d, DeletePieceStatements(i), 1, NoFault)
    IN  IF r.ok THEN Returns(r.db, Ok) ELSE Returns(d, Err(Database(r.source)))

\* The call c on the Database of db.rs.
DbCall(d, c, dbg, b) ==
    CASE c.op = "init" -> DbInit(d, dbg, b)
      [] c.op = "reset" -> DbReset(d, dbg, b)
      [] c.op = "add_piece" -> DbAddPiece(d, c.arg, b)
      [] c.op = "get_piece" -> DbGetPiece(d, c.arg.id)
      [] c.op = "list_pieces" -> Returns(d, DbListPieces(d))
      [] c.op = "update_quantity" -> DbUpdateQuantity(d, c.arg.id, c.arg.quantity)
      [] c.op = "delete_piece" -> DbDeletePiece(d, c.arg.id)

\* The orders in which a SELECT without ORDER BY can give the rows.
Orders(rows) ==
    { s \in [1..Cardinality(rows) -> rows] :
        \A j, k \in 1..Cardinality(rows) : s[j] = s[k] => j = k }

\* ---------------------------------------------------------------- StudFinder

\* .context(msg) on the error of a call that returned one.
WithContext(o, msg) ==
    IF o.fate = "returns" /\ ~o.res.ok
    THEN [o EXCEPT !.res = Err(Context(msg, o.res.err))] ELSE o

\* StudFinder::init().
FacadeInit(d, dbg, b) ==
    WithContext(DbInit(d, dbg, b), "Failed to initialize database schema")

\* StudFinder::reset(): db.reset(), which runs init(), then init() again.
FacadeReset(d, dbg, b) ==
    LET o == WithContext(DbReset(d, dbg, b), "Failed to reset database")
    IN  IF Returned(o) THEN FacadeInit(o.db, dbg, b) ELSE o

\* config.database_path.exists(), on a StudFinder that new() built:
\* Connection::open has created the file of a file path, and no file is ever
\* named ":memory:".
Exists(cfg) == ~cfg.in_memory

\* StudFinder::ensure_initialized().
EnsureInitialized(d, cfg, dbg, b) ==
    IF ~Exists(cfg) THEN FacadeInit(d, dbg, b) ELSE Returns(d, Ok)

\* The images a caller hands to scan_image: a pure red one, a pure blue one,
\* one whose color is detected with too little confidence, and a path with no
\* image.
Images == { "red", "blue", "dim", "missing" }

TextRed == << "R", "e", "d" >>
TextBlue == << "B", "l", "u", "e" >>

\* The piece the scanner makes of a pure color: part 3001, a Brick, quantity
\* 1, confidence 1.0, with a new UUID as its id.
ScannedPiece(i, color) ==
    [id |-> i, part_number |-> << "3", "0", "0", "1" >>, color |-> color,
     category |-> << "B", "r", "i", "c", "k" >>, quantity |-> 1, confidence |-> 100]

\* processor.process_image(path), i being the UUID it draws.
ProcessImage(image, i) ==
    CASE image = "red" -> [ok |-> TRUE, pieces |-> << ScannedPiece(i, TextRed) >>]
      [] image = "blue" -> [ok |-> TRUE, pieces |-> << ScannedPiece(i, TextBlue) >>]
      [] image = "dim" -> [ok |-> TRUE, pieces |-> << >>]
      [] OTHER -> Err(Message("Failed to open image"))

\* StudFinder::scan_image(path): the store is initialized when its file is not
\* there, and the first detected piece is returned.
FacadeScanImage(d, cfg, dbg, b, image, i) ==
    LET o == EnsureInitialized(d, cfg, dbg, b)
        r == ProcessImage(image, i)
    IN  IF ~Returned(o) THEN o
        ELSE IF ~r.ok THEN Returns(o.db, Err(Context("Failed to process image", r.err)))
        ELSE IF r.pieces = << >>
        THEN Returns(o.db, Err(Message("No pieces detected in image")))
        ELSE Returns(o.db, [ok |-> TRUE, piece |-> r.pieces[1]])

\* StudFinder::add_piece(piece).
FacadeAddPiece(d, piece, b) ==
    WithContext(DbAddPiece(d, piece, b), "Failed to add piece to database")

\* StudFinder::list_inventory().
FacadeListInventory(d) == DbListPieces(d)

\* A faulty variant of FacadeExport: the text is JSON whatever the
\* configuration says.
FacadeExportJsonOnly(d, fs, cfg, path, order) ==
    LET l == FacadeListInventory(d)
    IN  IF ~l.ok THEN [files |-> fs, res |-> l]
        ELSE IF ~Writable(path)
        THEN [files |-> fs,
              res |-> Err(Context("Failed to write JSON export",
                                  Io("No such file or directory")))]
        ELSE [files |-> (path :> ExportText(order, "Json")) @@ fs, res |-> Ok]

\* StudFinder::export_inventory(path): the inventory, listed in the order
\* `order`, is written to path in config.export_format.
FacadeExport(d, fs, cfg, path, order) ==
    LET l == FacadeListInventory(d)
    IN  IF ~l.ok THEN [files |-> fs, res |-> l]
        ELSE IF ~Writable(path)
        THEN [files |-> fs,
              res |-> Err(Context(IF cfg.export_format = "Json"
                                  THEN "Failed to write JSON export"
                                  ELSE "Failed to write CSV export",
                                  Io("No such file or directory")))]
        ELSE [files |-> (path :> ExportText(order, cfg.export_format)) @@ fs,
              res |-> Ok]

\* The pieces[k..] submitted one by one through add_piece; the first that is
\* not added ends the loop.
RECURSIVE AddAll(_, _, _, _)
AddAll(d, pieces, k, b) ==
    IF k > Len(pieces) THEN Returns(d, Ok)
    ELSE LET o == FacadeAddPiece(d, pieces[k], b)
         IN  IF Returned(o) THEN With(o.db, LAMBDA v : AddAll(v, pieces, k + 1, b))
             ELSE o

\* The loop of the CSV arm of StudFinder::import_inventory from line k on: a
\* line of six fields is parsed and added at once.
RECURSIVE FacadeImportLines(_, _, _, _)
FacadeImportLines(d, lines, k, b) ==
    IF k > Len(lines) THEN Returns(d, Ok)
    ELSE LET fields == Split(lines[k], ",")
             quantity == ParseI32(fields[5])
             confidence == ParseF32(fields[6])
             o == FacadeAddPiece(d, [id |-> fields[1], part_number |-> fields[2],
                                     color |-> fields[3], category |-> fields[4],
                                     quantity |-> quantity.value,
                                     confidence |-> confidence.value], b)
         IN  IF Len(fields) # 6 THEN FacadeImportLines(d, lines, k + 1, b)
             ELSE IF ~quantity.ok
             THEN Returns(d, Err(Context("Failed to parse quantity", Message("parse"))))
             ELSE IF ~confidence.ok
             THEN Returns(d, Err(Context("Failed to parse confidence", Message("parse"))))
             ELSE IF Returned(o)
             THEN With(o.db, LAMBDA v : FacadeImportLines(v, lines, k + 1, b))
             ELSE o

\* StudFinder::import_inventory(path): the extension of the path chooses the
\* arm; every piece read is submitted through add_piece.
FacadeImport(d, fs, path, b) ==
    IF path \notin DOMAIN fs
    THEN Returns(d, Err(Context(IF Extension(path) = SomeExtension(ExtJson)
                                THEN "Failed to read JSON import file"
                                ELSE "Failed to read CSV import file",
                                Io("No such file or directory"))))
    ELSE IF Extension(path) = SomeExtension(ExtJson)
    THEN LET r == ImportJson(fs[path])
         IN  IF ~r.ok
             THEN Returns(d, Err(Context("Failed to parse JSON data", Message("serde"))))
             ELSE AddAll(d, r.pieces, 1, b)
    ELSE FacadeImportLines(d, Lines(fs[path]), 2, b)

\* -------------------------------------------------------- facade callers

FacadeIds == { << "a" >>, << "b" >> }

\* The descriptions of the pieces a caller submits: the tests' piece, one with
\* a comma in its color, one whose confidence is not finite.
FacadeDescriptions ==
    { [part_number |-> << "3", "0", "0", "1" >>, color |-> TextRed,
       category |-> << "B", "r", "i", "c", "k" >>, confidence |-> 95],
      [part_number |-> << "3", "0", "2", "0" >>, color |-> << "R", ",", "G" >>,
       category |-> << "P" >>, confidence |-> 50],
      [part_number |-> << "3" >>, color |-> TextBlue,
       category |-> << "T" >>, confidence |-> Infinity] }

FacadePieces == { MkPiece(i, d, 1) : i \in FacadeIds, d \in FacadeDescriptions }

\* The inventories a store file of an earlier run may hold.
FacadeSeeds ==
    { {},
      { MkPiece(<< "a" >>, CHOOSE d \in FacadeDescriptions : d.confidence = 95, 3),
        MkPiece(<< "b" >>, CHOOSE d \in FacadeDescriptions : d.confidence = 95, 2) } }

\* The files StudFinder::new can open.
FacadeStores ==
    { EmptyDb, StoreV1({}) } \cup { StoreV2(ps) : ps \in FacadeSeeds }

\* A data line whose quantity is the largest i32.
LineMax ==
    << "b", ",", "1", ",", "R", ",", "B", "," >> \o FormatI32(I32Max) \o << ",", "1" >>

\* A JSON array whose first element is a piece and whose second has no field.
JsonBadSecond ==
    LET good == ExportJson(<< PieceSamples[1] >>)
    IN  SubSeq(good, 1, Len(good) - 2) \o << ",", "{", "}", "]" >>

\* The files of the working directory when a StudFinder starts: none, or one
\* that another program wrote.
FacadeFiles ==
    { NoFiles, PathJson :> JsonBadSecond,
      PathCsv :> CsvFile(<< LineGood, LineMax, LineBadQuantity >>, << "\n" >>) }

InitFacade ==
    /\ db \in FacadeStores
    /\ files \in FacadeFiles
    /\ config \in Configs
    /\ debugEnabled \in BOOLEAN
    /\ lockHolder = NoCaller
    /\ poisoned = FALSE
    /\ pc = [t \in Callers |-> "idle"]
    /\ cur = [t \in Callers |-> NoCall]
    /\ last = [t \in Callers |-> [op |-> "none", arg |-> NoArg, res |-> Ok]]
    /\ budget = [t \in Callers |-> IF t = "c1" THEN MaxFacadeCalls ELSE 0]
    /\ faultBudget = 0

\* Caller t starts a call of the facade.
FacadeCall(t) ==
    /\ pc[t] = "idle"
    /\ budget[t] > 0
    /\ lockHolder = NoCaller
    /\ budget' = [budget EXCEPT ![t] = @ - 1]

\* The call op(arg) of caller t ends as o says: it returns, or the thread hangs
\* in lock() with the mutex held, or it panics with the mutex held.
FacadeEnd(t, op, arg, o) ==
    /\ db' = o.db
    /\ CASE o.fate = "returns" ->
              /\ last' = [last EXCEPT ![t] = [op |-> op, arg |-> arg, res |-> o.res]]
              /\ UNCHANGED << pc, lockHolder, poisoned >>
         [] o.fate = "hangs" ->
              /\ pc' = [pc EXCEPT ![t] = "deadlocked"]
              /\ lockHolder' = t
              /\ UNCHANGED << last, poisoned >>
         [] o.fate = "panics" ->
              /\ pc' = [pc EXCEPT ![t] = "panicked"]
              /\ poisoned' = TRUE
              /\ UNCHANGED << last, lockHolder >>
    /\ UNCHANGED << cur, faultBudget, debugEnabled, config >>

StudFinderInit(t) ==
    /\ FacadeCall(t)
    /\ \E b \in Builds : \E o \in { FacadeInit(db, debugEnabled, b) } :
         FacadeEnd(t, "init", NoArg, o)
    /\ UNCHANGED files

StudFinderReset(t) ==
    /\ FacadeCall(t)
    /\ \E b \in Builds : \E o \in { FacadeReset(db, debugEnabled, b) } :
         FacadeEnd(t, "reset", NoArg, o)
    /\ UNCHANGED files

StudFinderEnsureInitialized(t) ==
    /\ FacadeCall(t)
    /\ \E b \in Builds : \E o \in { EnsureInitialized(db, config, debugEnabled, b) } :
         FacadeEnd(t, "ensure_initialized", NoArg, o)
    /\ UNCHANGED files

ScanImage(t) ==
    /\ FacadeCall(t)
    /\ \E b \in Builds, image \in Images, i \in FacadeIds :
         /\ ~HasRow(db, i)
         /\ \E o \in { FacadeScanImage(db, config, debugEnabled, b, image, i) } :
              FacadeEnd(t, "scan_image", [image |-> image], o)
    /\ UNCHANGED files

StudFinderAddPiece(t) ==
    /\ FacadeCall(t)
    /\ \E b \in Arithmetics, piece \in FacadePieces :
         \E o \in { FacadeAddPiece(db, piece, b) } :
            FacadeEnd(t, "add_piece", piece, o)
    /\ UNCHANGED files

ListInventory(t) ==
    /\ FacadeCall(t)
    /\ \E order \in Orders(db.rows) : \E l \in { FacadeListInventory(db) } :
         FacadeEnd(t, "list_inventory", NoArg,
                   Returns(db, IF l.ok THEN [ok |-> TRUE, pieces |-> order] ELSE l))
    /\ UNCHANGED files

StudFinderExportInventory(t) ==
    /\ FacadeCall(t)
    /\ \E path \in Paths, order \in Orders(db.rows) :
         \E r \in { FacadeExport(db, files, config, path, order) } :
            /\ files' = r.files
            /\ FacadeEnd(t, "export_inventory", [path |-> path], Returns(db, r.res))

StudFinderImportInventory(t) ==
    /\ FacadeCall(t)
    /\ \E b \in Arithmetics, path \in Paths :
         \E o \in { FacadeImport(db, files, path, b) } :
            FacadeEnd(t, "import_inventory", [path |-> path], o)
    /\ UNCHANGED files

\* The backup and restore of tests/mock_test.rs: the inventory is exported to
\* path, the store is reset, and the file is imported.
BackupRestore(t) ==
    /\ FacadeCall(t)
    /\ \E b \in Builds, path \in Paths, order \in Orders(db.rows) :
         \E e \in { FacadeExport(db, files, config, path, order) } :
         \E r \in { IF e.res.ok THEN FacadeReset(db, debugEnabled, b)
                     ELSE Returns(db, e.res) } :
         \E i \in { IF Returned(r) THEN FacadeImport(r.db, e.files, path, b) ELSE r } :
            /\ files' = e.files
            /\ FacadeEnd(t, "backup_restore", [path |-> path, before |-> db.rows],
                   IF ~e.res.ok
                   THEN Returns(db, [ok |-> FALSE, step |-> "export", err |-> e.res.err])
                   ELSE IF ~Returned(r)
                   THEN [r EXCEPT !.res = [ok |-> FALSE, step |-> "reset",
                                           err |-> IF r.res.ok THEN Ok ELSE r.res.err]]
                   ELSE [i EXCEPT !.res =
                            [ok |-> i.res.ok,
                             step |-> IF i.res.ok THEN "done" ELSE "import",
                             between |-> r.db.rows,
                             after |-> i.db.rows,
                             err |-> IF i.res.ok THEN Ok ELSE i.res.err]])

NextFacade ==
    \E t \in Callers :
        \/ StudFinderInit(t)
        \/ StudFinderReset(t)
        \/ StudFinderEnsureInitialized(t)
        \/ ScanImage(t)
        \/ StudFinderAddPiece(t)
        \/ ListInventory(t)
        \/ StudFinderExportInventory(t)
        \/ StudFinderImportInventory(t)
        \/ BackupRestore(t)

\* One thread uses a StudFinder; the environment fails no statement.
SpecFacade == InitFacade /\ [][NextFacade]_vars

\* -------------------------------------------------------------- classifiers

\* MaxScanCalls: the calls a caller makes of the classifiers.
MaxScanCalls == 2

\* A confidence of the classifiers is counted in parts of ConfidenceUnit, in
\* which every quotient they compute of whole channel averages is whole:
\* 1.0 is ConfidenceUnit, 0.85 is 5202, and x / 255 is 24 * x.
ConfidenceUnit == 6120

ScanQualities == { "Fast", "Balanced", "Accurate" }

\* Scanner::new(quality): color_threshold in hundredths, min_confidence in
\* parts of ConfidenceUnit (0.7, 0.8, 0.9), min_region_size in pixels.
ScanConfig(quality) ==
    CASE quality = "Fast" ->
           [color_threshold |-> 60, min_confidence |-> 4284, min_region_size |-> 50]
      [] quality = "Balanced" ->
           [color_threshold |-> 75, min_confidence |-> 4896, min_region_size |-> 100]
      [] quality = "Accurate" ->
           [color_threshold |-> 85, min_confidence |-> 5508, min_region_size |-> 150]

\* The thresholds a Detector is made with: 0.5, 0.8 (the tests') and 0.95.
DetectorThresholds == { 3060, 4896, 5814 }

\* An image file of the given size whose channels average to r, g and b (the
\* whole numbers the integer division of the channel sums gives).
Image(width, height, r, g, b) ==
    [found |-> TRUE, width |-> width, height |-> height, r |-> r, g |-> g, b |-> b]

\* A path with no image.
NoImage == [found |-> FALSE]

\* The images handed to the classifiers: pure and nearly pure colors on both
\* sides of the thresholds, colors no arm matches, small images, and none.
ScanImages ==
    { Image(200, 200, 255, 0, 0), Image(200, 200, 255, 51, 0),
      Image(200, 200, 255, 52, 0), Image(200, 200, 0, 0, 0),
      Image(200, 200, 10, 10, 10), Image(200, 200, 255, 255, 255),
      Image(200, 200, 128, 128, 128), Image(200, 200, 255, 255, 0),
      Image(200, 200, 0, 230, 20), Image(200, 200, 0, 0, 200),
      Image(60, 60, 255, 0, 0), Image(200, 120, 255, 0, 0), NoImage }

\* The UUIDs a classifier may draw.
Uuids == { << "u", "1" >>, << "u", "2" >>, << "u", "3" >> }

Largest(x, y) == IF x >= y THEN x ELSE y
Smallest(x, y) == IF x <= y THEN x ELSE y

TextGreen == << "G", "r", "e", "e", "n" >>
TextYellow == << "Y", "e", "l", "l", "o", "w" >>
TextWhite == << "W", "h", "i", "t", "e" >>
TextBlack == << "B", "l", "a", "c", "k" >>
TextUnknown == << "U", "n", "k", "n", "o", "w", "n" >>

\* avg > color_threshold * 255 and avg < (1 - color_threshold) * 255, for a
\* color_threshold of ct hundredths.
High(avg, ct) == avg * 100 > ct * 255
Low(avg, ct) == avg * 100 < (100 - ct) * 255

Detected(color, confidence) == [color |-> color, confidence |-> confidence]

\* analyze_color_with_confidence(img) with a color_threshold of ct hundredths:
\* the first arm that matches the averages gives the color and its confidence.
AnalyzeColor(img, ct) ==
    CASE High(img.r, ct) /\ Low(img.g, ct) /\ Low(img.b, ct) ->
           Detected(TextRed, 24 * (img.r - Largest(img.g, img.b)))
      [] Low(img.r, ct) /\ High(img.g, ct) /\ Low(img.b, ct) ->
           Detected(TextGreen, 24 * (img.g - Largest(img.r, img.b)))
      [] Low(img.r, ct) /\ Low(img.g, ct) /\ High(img.b, ct) ->
           Detected(TextBlue, 24 * (img.b - Largest(img.r, img.g)))
      [] High(img.r, ct) /\ High(img.g, ct) /\ Low(img.b, ct) ->
           Detected(TextYellow,
                    Smallest(24 * (Smallest(img.r, img.g) - img.b), ConfidenceUnit))
      [] High(img.r, ct) /\ High(img.g, ct) /\ High(img.b, ct) ->
           Detected(TextWhite, 24 * Smallest(Smallest(img.r, img.g), img.b))
      [] Low(img.r, ct) /\ Low(img.g, ct) /\ Low(img.b, ct) ->
           Detected(TextBlack,
                    ConfidenceUnit
                    - (ConfidenceUnit * 100 * Largest(Largest(img.r, img.g), img.b))
                      \div ((100 - ct) * 255))
      [] OTHER -> Detected(TextUnknown, 0)

\* categorize_part(part_number) of the part number both classifiers give.
Part3001 == << "3", "0", "0", "1" >>
CategoryBrick == << "B", "r", "i", "c", "k" >>

\* The one piece a classifier returns: part 3001, a Brick, quantity 1.
ClassifiedPiece(i, detected, confidence) ==
    [id |-> i, part_number |-> Part3001, color |-> detected.color,
     category |-> CategoryBrick, quantity |-> 1, confidence |-> confidence]

\* The image is narrower or lower than size pixels.
TooSmall(img, size) == img.width < size \/ img.height < size

\* A scan that returns the piece whatever its confidence.
ScannerScanImageUnfiltered(scanner, img, i) ==
    IF ~img.found THEN Err(Message("Failed to open image"))
    ELSE IF TooSmall(img, scanner.min_region_size) THEN Err(Message("Image too small"))
    ELSE \* the piece is made without the test of the confidence
         [ok |-> TRUE,
          pieces |-> << ClassifiedPiece(i, AnalyzeColor(img, scanner.color_threshold),
                            AnalyzeColor(img, scanner.color_threshold).confidence) >>]

\* Scanner::scan_image(path), i being the UUID it draws.
ScannerScanImage(scanner, img, i) ==
    IF ~img.found THEN Err(Message("Failed to open image"))
    ELSE IF TooSmall(img, scanner.min_region_size) THEN Err(Message("Image too small"))
    ELSE IF AnalyzeColor(img, scanner.color_threshold).confidence < scanner.min_confidence
    THEN [ok |-> TRUE, pieces |-> << >>]
    ELSE [ok |-> TRUE,
          pieces |-> << ClassifiedPiece(i, AnalyzeColor(img, scanner.color_threshold),
                            AnalyzeColor(img, scanner.color_threshold).confidence) >>]

\* find_best_template(img): part 3001 with confidence 0.85.
MatchConfidence == 5202

\* The overall confidence of the detector: the mean of the color's and the
\* template's, the color being analyzed with the thresholds 0.75 and 0.25.
DetectorConfidence(img) == (AnalyzeColor(img, 75).confidence + MatchConfidence) \div 2

\* Detector::detect_pieces(path) of a detector with the confidence threshold,
\* i being the UUID it draws.
DetectPieces(threshold, img, i) ==
    IF ~img.found THEN Err(Message("Failed to open image"))
    ELSE IF TooSmall(img, 100) THEN Err(Message("Image too small"))
    ELSE IF DetectorConfidence(img) < threshold THEN [ok |-> TRUE, pieces |-> << >>]
    ELSE [ok |-> TRUE,
          pieces |-> << ClassifiedPiece(i, AnalyzeColor(img, 75), DetectorConfidence(img)) >>]

\* The ids of the pieces the callers' last calls returned.
Issued ==
    UNION { { last[c].res.pieces[k].id : k \in DOMAIN last[c].res.pieces } :
            c \in { c \in Callers : "pieces" \in DOMAIN last[c].res } }

InitScan ==
    /\ db = EmptyDb
    /\ files = NoFiles
    /\ config = DefaultConfig
    /\ debugEnabled = FALSE
    /\ lockHolder = NoCaller
    /\ poisoned = FALSE
    /\ pc = [t \in Callers |-> "idle"]
    /\ cur = [t \in Callers |-> NoCall]
    /\ last = [t \in Callers |-> [op |-> "none", arg |-> NoArg, res |-> Ok]]
    /\ budget = [t \in Callers |-> IF t = "c1" THEN MaxScanCalls ELSE 0]
    /\ faultBudget = 0

\* A caller has a Scanner of some quality process an image; new_v4 draws a
\* UUID that no earlier call has drawn.
ScannerProcessImage(t) ==
    /\ pc[t] = "idle"
    /\ budget[t] > 0
    /\ budget' = [budget EXCEPT ![t] = @ - 1]
    /\ \E quality \in ScanQualities, img \in ScanImages, i \in Uuids \ Issued :
         last' = [last EXCEPT ![t] =
             [op |-> "Scanner::process_image", arg |-> [quality |-> quality, image |-> img],
              res |-> ScannerScanImage(ScanConfig(quality), img, i)]]
    /\ UNCHANGED << db, files, lockHolder, poisoned, pc, cur, faultBudget, debugEnabled, config >>

\* A caller has a Detector of some threshold process an image.
DetectorProcessImage(t) ==
    /\ pc[t] = "idle"
    /\ budget[t] > 0
    /\ budget' = [budget EXCEPT ![t] = @ - 1]
    /\ \E threshold \in DetectorThresholds, img \in ScanImages, i \in Uuids \ Issued :
         last' = [last EXCEPT ![t] =
             [op |-> "Detector::process_image",
              arg |-> [threshold |-> threshold, image |-> img],
              res |-> DetectPieces(threshold, img, i)]]
    /\ UNCHANGED << db, files, lockHolder, poisoned, pc, cur, faultBudget, debugEnabled, config >>

NextScan == \E t \in Callers : ScannerProcessImage(t) \/ DetectorProcessImage(t)

\* A caller of the classifiers, which keep no state.
SpecScan == InitScan /\ [][NextScan]_vars

\* ------------------------------------------------------------------- claims

\* The store has been migrated to the latest version.
Initialized(d) == d.hasLedger /\ MaxVersion(d) = LatestVersion

\* Caller t is in the body of init(), called directly or by reset().
InInit(t) == (pc[t] = "run" /\ cur[t].op = "init") \/ pc[t] = "reinit_run"

\* Caller t is in the body of operation o.
In(t, o) == pc[t] = "run" /\ cur[t].op = o

\* The environment fails no statement in this step.
NoFaultNow == faultBudget' = faultBudget

\* C1: an init() that fails, whatever statement of the batch (or the commit)
\* failed, leaves the database exactly as it was before the call.
C1_MigrationAtomicity ==
    [][\A t \in Callers :
        /\ (pc[t] = "idle" /\ pc'[t] = "run" /\ cur'[t].op = "init") => db' = db
        /\ (InInit(t) /\ pc'[t] = "idle" /\ ~last'[t].res.ok) => db' = db]_vars

\* An upgrade from version 1 failed in a migration step, and the store still is
\* the version-1 store with its rows.
C1_Witness ==
    /\ last["c1"].op = "init"
    /\ ~last["c1"].res.ok
    /\ last["c1"].res.err.kind = "Migration"
    /\ db = StoreV1(SeedPieces)

\* C2: init() on a store at the latest version succeeds and changes nothing.
C2_InitIdempotent ==
    [][\A t \in Callers :
        (InInit(t) /\ pc'[t] # pc[t] /\ Initialized(db) /\ NoFaultNow)
        => (pc'[t] = "idle" /\ last'[t].res.ok /\ db' = db)]_vars

\* C3: an init() that succeeds on a store at version v adds exactly the ledger
\* rows v+1..2, in increasing order, and leaves the schema of version 2.
C3_OrderedLadder ==
    [][\A t \in Callers :
        (InInit(t) /\ (pc'[t] = "log" \/ (pc'[t] = "idle" /\ last'[t].res.ok)))
        => LET v == MaxVersion(db)
           IN  /\ db'.ledger = db.ledger \cup { k \in 1..LatestVersion : k > v }
               /\ MaxVersion(db') = LatestVersion
               /\ db'.hasPieces /\ db'.hasConfidence
               /\ db'.indexes = {"idx_part_number", "idx_color"}
               /\ (pc'[t] = "idle" /\ cur[t].op = "init")
                  => /\ last'[t].res.version = v
                     /\ last'[t].res.applied = [k \in 1..(LatestVersion - v) |-> v + k]]_vars

\* init() returned from upgrading a version-1 store: it applied step 2 only.
C3_Witness ==
    /\ last["c1"].op = "init"
    /\ last["c1"].res.ok
    /\ last["c1"].res.version = 1
    /\ last["c1"].res.applied = << 2 >>
    /\ db.ledger = {1, 2}
    /\ db.rows # {}

\* C4: add_piece(p1) that inserted its id, followed by add_piece(p2) with the
\* same id, leaves exactly one row for the id, with quantity p1.quantity +
\* p2.quantity and the other fields of p1.
C4_MergeInvariant ==
    [][\A t \in Callers :
        (/\ In(t, "add_piece") /\ pc'[t] # "run" /\ NoFaultNow
         /\ last[t].op = "add_piece" /\ last[t].res.ok /\ last[t].res.branch = "insert"
         /\ last[t].arg.id = cur[t].arg.id)
        => LET p1 == last[t].arg
               p2 == cur[t].arg
               rs == { r \in db'.rows : r.id = p1.id }
           IN  /\ Cardinality(rs) = 1
               /\ \A r \in rs :
                    /\ ~Overflows(p1.quantity, p2.quantity)
                    /\ r = [p1 EXCEPT !.quantity = p1.quantity + p2.quantity]]_vars

\* C5: add_piece of an id the initialized store does not hold succeeds and adds
\* exactly the submitted record; on an empty store list_pieces then returns just
\* that record and get_piece returns it.
C5_InsertOnAbsentId ==
    [][\A t \in Callers :
        (/\ In(t, "add_piece") /\ pc'[t] # "run" /\ NoFaultNow
         /\ Initialized(db) /\ ~HasRow(db, cur[t].arg.id))
        => /\ pc'[t] = "idle" /\ last'[t].res.ok
           /\ db' = [db EXCEPT !.rows = @ \cup {cur[t].arg}]
           /\ GetPieceTx(db', cur[t].arg.id, NoFault).res
                = [ok |-> TRUE, piece |-> << cur[t].arg >>]
           /\ db.rows = {}
              => ListPiecesTx(db', NoFault).res = [ok |-> TRUE, pieces |-> {cur[t].arg}]]_vars

\* add_piece returned from inserting into an empty store.
C5_Witness ==
    /\ last["c1"].op = "add_piece"
    /\ last["c1"].res.ok
    /\ last["c1"].res.branch = "insert"
    /\ db.rows = {last["c1"].arg}

\* C6: update_quantity and delete_piece of an id the initialized store does not
\* hold return PieceNotFound with that id and leave the database unchanged.
C6_NotFound ==
    [][\A t \in Callers :
        (/\ In(t, "update_quantity") \/ In(t, "delete_piece")
         /\ pc'[t] = "idle" /\ NoFaultNow
         /\ Initialized(db) /\ ~HasRow(db, cur[t].arg.id))
        => /\ last'[t].res = Err(PieceNotFound(cur[t].arg.id))
           /\ db' = db]_vars

\* update_quantity returned PieceNotFound from a store that holds other rows.
C6_Witness ==
    /\ last["c1"].op = "update_quantity"
    /\ last["c1"].res = Err(PieceNotFound(last["c1"].arg.id))
    /\ Initialized(db)
    /\ db.rows # {}

\* C7: when a caller is back from a reset() that succeeded, the pieces table
\* is empty, list_pieces returns nothing and the ledger's maximum is 2.
C7_ResetCompleteness ==
    \A t \in Callers :
        (pc[t] = "idle" /\ last[t].op = "reset" /\ last[t].res.ok)
        => /\ db.rows = {}
           /\ MaxVersion(db) = LatestVersion
           /\ ListPiecesTx(db, NoFault).res = [ok |-> TRUE, pieces |-> {}]

\* reset() returned success.
C7_Witness ==
    /\ pc["c1"] = "idle"
    /\ last["c1"].op = "reset"
    /\ last["c1"].res.ok
    /\ db = StoreV2({})

\* C8: reset() is atomic for the other callers: none of them runs an operation
\* between reset's table drop and its re-initialization.
C8_ResetAtomic ==
    \A t, u \in Callers : (t # u /\ pc[t] = "reinit") => lockHolder # u

\* C9: no caller asks for the mutex while its own call holds it.  ("log": the
\* call is at init()'s get_schema_version with `conn` in scope; "deadlocked":
\* it has asked.)
C9_NoRecursiveLock ==
    \A t \in Callers : ~(lockHolder = t /\ pc[t] \in {"log", "deadlocked"})

\* Each caller has made one call, an add_piece, the two with distinct ids, and
\* each is back from it.
TwoAdds(t, u) ==
    /\ t # u
    /\ pc[t] = "idle" /\ pc[u] = "idle"
    /\ budget[t] = MaxConcCalls - 1 /\ budget[u] = MaxConcCalls - 1
    /\ last[t].op = "add_piece" /\ last[u].op = "add_piece"
    /\ last[t].arg.id # last[u].arg.id

\* C10 as stated: two concurrent add_piece calls with distinct ids on an
\* initialized store both succeed and both submitted records are stored.
C10_ConcurrentAdds ==
    \A t, u \in Callers :
        (TwoAdds(t, u) /\ Initialized(db))
        => /\ last[t].res.ok /\ last[u].res.ok
           /\ {last[t].arg, last[u].arg} \subseteq db.rows

\* C10 amended: ... on an initialized store that holds neither id ... (a
\* call that found its id stored returns from the update branch).
C10_ConcurrentAddsOfAbsentIds ==
    \A t, u \in Callers :
        (/\ TwoAdds(t, u) /\ Initialized(db)
         /\ \A c \in {t, u} : last[c].res.ok => last[c].res.branch = "insert")
        => /\ last[t].res.ok /\ last[u].res.ok
           /\ {last[t].arg, last[u].arg} \subseteq db.rows
           /\ ListPiecesTx(db, NoFault).res.pieces = db.rows

\* Both callers are back from inserting their record.
C10_Witness ==
    /\ TwoAdds("c1", "c2")
    /\ last["c1"].res.ok /\ last["c2"].res.ok
    /\ last["c1"].res.branch = "insert" /\ last["c2"].res.branch = "insert"
    /\ db.rows = {last["c1"].arg, last["c2"].arg}

\* Caller t is inside a critical section: a MutexGuard of its call is in scope.
HoldsLock(t) == pc[t] \in {"run", "reinit_run", "log", "deadlocked"}

\* The result r reports that the mutex could not be taken (by the call itself,
\* or by the init() that reset() called).
IsLockFailure(r) ==
    /\ ~r.ok
    /\ \/ r.err.kind = "DatabaseLockFailed"
       \/ r.err.kind = "DatabaseResetFailed" /\ r.err.source.kind = "DatabaseLockFailed"

\* C11: at most one caller is inside a critical section, and that caller owns
\* the mutex; every step that writes the store, and every step in which a call
\* takes a result from the store (get_piece and list_pieces included), is a step
\* of the caller that owns the mutex.
C11_MutualExclusion ==
    /\ [](/\ Cardinality({ t \in Callers : HoldsLock(t) }) <= 1
          /\ \A t \in Callers : HoldsLock(t) <=> lockHolder = t)
    /\ [][/\ db' # db => lockHolder \in Callers /\ HoldsLock(lockHolder)
          /\ \A t \in Callers :
               (last'[t] # last[t] /\ ~IsLockFailure(last'[t].res))
               => lockHolder = t /\ HoldsLock(t)]_vars

\* A caller runs get_piece inside its critical section while the other caller, which
\* called reset(), waits for the mutex between reset's two critical sections.
C11_Witness ==
    /\ pc["c1"] = "reinit"
    /\ pc["c2"] = "run"
    /\ lockHolder = "c2"
    /\ cur["c2"].op = "get_piece"

\* C12: a call made on a poisoned mutex returns DatabaseLockFailed with the
\* name of the operation called, at once (no retry, no statement run) and
\* without changing the store.
C12_LockFailure ==
    [][\A t \in Callers :
        (poisoned /\ pc[t] = "idle" /\ budget'[t] < budget[t])
        => /\ pc'[t] = "idle"
           /\ budget'[t] = budget[t] - 1
           /\ lockHolder' = lockHolder
           /\ db' = db
           /\ last'[t].res.ok = FALSE
           /\ last'[t].res.err.kind = "DatabaseLockFailed"
           /\ last'[t].res.err.operation =
                (CASE last'[t].op = "init" -> "initialize schema"
                   [] last'[t].op = "reset" -> "reset schema"
                   [] last'[t].op = "add_piece" -> "add piece"
                   [] last'[t].op = "get_piece" -> "get piece"
                   [] last'[t].op = "list_pieces" -> "list pieces"
                   [] last'[t].op = "update_quantity" -> "update quantity"
                   [] last'[t].op = "delete_piece" -> "delete piece")]_vars

\* The first caller panicked in add_piece while it held the mutex; the second
\* caller's reset() returned the lock error and the rows are still there.
C12_Witness ==
    /\ poisoned
    /\ pc["c1"] = "panicked"
    /\ cur["c1"].op = "add_piece"
    /\ last["c2"].op = "reset"
    /\ last["c2"].res = Err(DatabaseLockFailed("reset schema"))
    /\ db = StoreV2(SeedPieces)

\* C13: every stored piece row has quantity >= 0.
C13_QuantityNonNegative == \A r \in db.rows : r.quantity >= 0

\* C14: the pieces table holds at most one row per id.
C14_IdUniqueness ==
    \A r1, r2 \in db.rows : r1.id = r2.id => r1 = r2

\* Both callers added the same id with different fields: one call inserted the
\* row, the other merged into it, and the table holds one row for the id.
C14_Witness ==
    /\ pc["c1"] = "idle" /\ pc["c2"] = "idle"
    /\ last["c1"].op = "add_piece" /\ last["c2"].op = "add_piece"
    /\ last["c1"].res.ok /\ last["c2"].res.ok
    /\ last["c1"].arg.id = last["c2"].arg.id
    /\ last["c1"].arg.color # last["c2"].arg.color
    /\ last["c1"].res.branch = "insert" /\ last["c2"].res.branch = "update"
    /\ Cardinality({ r \in db.rows : r.id = last["c1"].arg.id }) = 1

\* C15: when a call returns, the ledger's maximum version is not lower than it
\* was when the call started, whatever the call and whatever it returns; and a
\* step of an operation other than reset removes no ledger row.
C15_VersionMonotonic ==
    [][\A t \in Callers :
        /\ (pc[t] # "idle" /\ pc'[t] = "idle") => MaxVersion(db') >= cur[t].version
        /\ (lockHolder = t /\ cur[t].op # "reset") => db.ledger \subseteq db'.ledger]_vars

\* C16: in every committed state, with v the ledger's maximum version: the
\* ledger holds exactly the versions 1..v, the pieces table exists iff v >= 1,
\* the confidence column and both indexes exist iff v >= 2, and the ledger
\* table and the pieces table exist together or not at all.
C16_LedgerSchemaConsistency ==
    LET v == MaxVersion(db)
    IN  /\ v \in 0..LatestVersion
        /\ db.ledger = 1..v
        /\ db.hasPieces <=> v >= 1
        /\ db.hasConfidence <=> v >= 2
        /\ db.indexes = (IF v >= 2 THEN {"idx_part_number", "idx_color"} ELSE {})
        /\ \A r \in db.rows : ("confidence" \in DOMAIN r) <=> v >= 2
        /\ db.hasLedger <=> db.hasPieces

\* init() returned from migrating a file without tables through both steps.
C16_Witness ==
    /\ last["c1"].op = "init"
    /\ last["c1"].res.ok
    /\ last["c1"].res.version = 0
    /\ last["c1"].res.applied = << 1, 2 >>
    /\ db = StoreV2({})

\* The schema change that statement s makes is already present in d.
ChangePresent(s, d) ==
    CASE s.sql = "create_pieces" -> d.hasPieces
      [] s.sql = "add_confidence" -> d.hasPieces /\ d.hasConfidence
      [] s.sql = "create_index_part_number" -> "idx_part_number" \in d.indexes
      [] s.sql = "create_index_color" -> "idx_color" \in d.indexes

\* This step is caller t's attempt of one schema statement.
Attempts(t) ==
    /\ pc[t] = "idle" /\ pc'[t] = "idle"
    /\ budget'[t] < budget[t]
    /\ last'[t].op = "attempt"

\* An init() that succeeds inserts only ledger rows that are not there, and
\* runs nothing on a store at the latest version.
VersionGate ==
    \A t \in Callers :
        (InInit(t) /\ (pc'[t] = "log" \/ (pc'[t] = "idle" /\ last'[t].res.ok)))
        => /\ db.hasLedger => db'.ledger \ db.ledger = { k \in 1..LatestVersion : k > MaxVersion(db) }
           /\ MaxVersion(db) = LatestVersion => db' = db
           /\ (pc'[t] = "idle" /\ cur[t].op = "init")
              => \A k \in DOMAIN last'[t].res.applied :
                    last'[t].res.applied[k] \notin db.ledger

\* C17 as stated: every schema statement of a migration step, attempted on a
\* store in which its change is present, succeeds and changes nothing; and the
\* version gate runs each step's ledger insert and side effects at most once.
C17_DdlIdempotent ==
    [][/\ \A t \in Callers :
            (Attempts(t) /\ ChangePresent(last'[t].arg, db))
            => last'[t].res.ok /\ db' = db
       /\ VersionGate]_vars

\* C17 amended: the CREATE TABLE and the two CREATE INDEX statements, which
\* carry IF NOT EXISTS, succeed and change nothing on a store in which their
\* change is present; the ALTER TABLE ... ADD COLUMN then fails ("duplicate
\* column name") and changes nothing, so for it the version gate is the only
\* protection; the version gate as stated.
C17_DdlIdempotentButAddColumn ==
    [][/\ \A t \in Callers :
            (Attempts(t) /\ ChangePresent(last'[t].arg, db))
            => /\ db' = db
               /\ last'[t].arg.sql # "add_confidence" => last'[t].res.ok
               /\ last'[t].arg.sql = "add_confidence"
                  => last'[t].res = Err(MigrationError(2, "add confidence column",
                                                       "duplicate column name: confidence"))
       /\ VersionGate]_vars

\* The index on color was created again on a migrated store with rows: the
\* statement succeeded and the store is as it was.
C17_Witness ==
    /\ budget["c1"] = MaxCalls - 1
    /\ last["c1"].op = "attempt"
    /\ last["c1"].arg.sql = "create_index_color"
    /\ last["c1"].res.ok
    /\ db = StoreV2(SeedPieces)

\* The target versions of the migration steps that have a statement named o.
StepsNaming(o) ==
    CASE o = "create pieces table" -> {1}
      [] o = "add confidence column" -> {2}
      [] o = "create part_number index" -> {2}
      [] o = "create color index" -> {2}
      [] o = "update schema version" -> {1, 2}
      [] OTHER -> {}

\* C18: when init() (called directly or by reset()) fails in a statement of a
\* migration step, its error is the Migration variant with the operation name
\* of that statement and the target version of its step, a step that was
\* pending; the Database variant is returned only for the statements around
\* the steps (begin, the ledger table, the version query, commit).
C18_MigrationErrorContent ==
    [][\A t \in Callers :
        (InInit(t) /\ pc'[t] = "idle" /\ ~last'[t].res.ok)
        => LET e == IF cur[t].op = "reset" THEN last'[t].res.err.source
                    ELSE last'[t].res.err
           IN  /\ e.kind \in {"Migration", "Database"}
               /\ StepsNaming(e.operation) # {}
                  => /\ e.kind = "Migration"
                     /\ e.version \in StepsNaming(e.operation)
                     /\ e.version > MaxVersion(db)
               /\ e.kind = "Database"
                  => e.operation \in {"begin transaction", "create schema_version table",
                                      "query schema version", "commit transaction"}]_vars

\* The upgrade of a version-1 store failed at the second index of step 2.
C18_Witness ==
    /\ last["c1"].op = "init"
    /\ last["c1"].res =
         Err(MigrationError(2, "create color index", "disk I/O error"))
    /\ db = StoreV1(SeedPieces)

\* C19: get_piece(id) on an initialized store returns Ok(Some(row)) with the
\* stored row when the id is stored and Ok(None) when it is not, and leaves
\* the store unchanged.
C19_GetPiece ==
    [][\A t \in Callers :
        (In(t, "get_piece") /\ pc'[t] # "run" /\ NoFaultNow /\ Initialized(db))
        => LET found == { r \in db.rows : r.id = cur[t].arg.id }
           IN  /\ pc'[t] = "idle"
               /\ last'[t].res.ok
               /\ found = {} => last'[t].res.piece = << >>
               /\ \A r \in found : last'[t].res.piece = << r >>
               /\ db' = db]_vars

\* get_piece returned Ok(None) from an initialized store that holds another row.
C19_Witness ==
    /\ last["c1"].op = "get_piece"
    /\ last["c1"].res = [ok |-> TRUE, piece |-> << >>]
    /\ Initialized(db)
    /\ db.rows # {}
    /\ \A r \in db.rows : r.id # last["c1"].arg.id

\* C20: update_quantity(id, q) of a stored id returns Ok, sets that row's
\* quantity to q, changes no other field, no other row, not the ledger or the
\* schema; and done again with the same q it changes nothing.
C20_UpdateQuantity ==
    [][\A t \in Callers :
        (In(t, "update_quantity") /\ pc'[t] # "run" /\ NoFaultNow
         /\ HasRow(db, cur[t].arg.id))
        => LET i == cur[t].arg.id
               q == cur[t].arg.quantity
               old == { r \in db.rows : r.id = i }
           IN  /\ pc'[t] = "idle"
               /\ last'[t].res = Ok
               /\ db'.rows = (db.rows \ old) \cup { [r EXCEPT !.quantity = q] : r \in old }
               /\ db' = [db EXCEPT !.rows = db'.rows]
               /\ UpdateQuantityTx(db', i, q, NoFault).res = Ok
               /\ UpdateQuantityTx(db', i, q, NoFault).db = db']_vars

\* update_quantity returned Ok and one of two rows has the new quantity.
C20_Witness ==
    /\ last["c1"].op = "update_quantity"
    /\ last["c1"].res = Ok
    /\ Cardinality(db.rows) = 2
    /\ \E r \in db.rows : r.id = last["c1"].arg.id /\ r.quantity = last["c1"].arg.quantity
    /\ \E r \in db.rows : r.id # last["c1"].arg.id /\ r.quantity # last["c1"].arg.quantity

\* C21: delete_piece(id) of a stored id returns Ok and removes exactly that
\* row; on the resulting store get_piece(id) returns Ok(None), list_pieces
\* returns the other rows as they were, and delete_piece(id) returns
\* PieceNotFound.
C21_DeletePiece ==
    [][\A t \in Callers :
        (In(t, "delete_piece") /\ pc'[t] # "run" /\ NoFaultNow
         /\ HasRow(db, cur[t].arg.id))
        => LET i == cur[t].arg.id
               others == { r \in db.rows : r.id # i }
           IN  /\ pc'[t] = "idle"
               /\ last'[t].res = Ok
               /\ db' = [db EXCEPT !.rows = others]
               /\ DeletePieceTx(db', i, NoFault).res = Err(PieceNotFound(i))
               /\ DeletePieceTx(db', i, NoFault).db = db'
               /\ Initialized(db)
                  => /\ GetPieceTx(db', i, NoFault).res = [ok |-> TRUE, piece |-> << >>]
                     /\ ListPiecesTx(db', NoFault).res = [ok |-> TRUE, pieces |-> others]]_vars

\* delete_piece returned Ok from a store with two rows, and the other row is
\* what is left.
C21_Witness ==
    /\ last["c1"].op = "delete_piece"
    /\ last["c1"].res = Ok
    /\ budget["c1"] = MaxCalls - 1
    /\ Initialized(db)
    /\ Cardinality(db.rows) = 1
    /\ db.rows \subseteq SeedPieces
    /\ \A r \in db.rows : r.id # last["c1"].arg.id

\* C28: add_piece of a stored id with stored quantity a and submitted quantity b
\* either stores a + b or returns an error and leaves the store as it was; it
\* stores no wrapped sum and does not panic with the mutex held.
C28_MergeArithmetic ==
    [][\A t \in Callers :
        (In(t, "add_piece") /\ pc'[t] # "run" /\ Initialized(db)
         /\ HasRow(db, cur[t].arg.id))
        => LET a == RowOf(db, cur[t].arg.id).quantity
               b == cur[t].arg.quantity
           IN  /\ pc'[t] = "idle"
               /\ ~poisoned'
               /\ ~last'[t].res.ok => db' = db
               /\ last'[t].res.ok
                  => /\ ~Overflows(a, b)
                     /\ RowOf(db', cur[t].arg.id).quantity = a + b]_vars

\* C29: a caller that is not in a call does not hold the mutex, and, unless a
\* caller panics with the mutex held, every call that has started returns
\* (which includes that a reset() waiting to re-enter init() gets the mutex).
C29_Completion ==
    /\ [](\A t \in Callers : pc[t] = "idle" => lockHolder # t)
    /\ \A t \in Callers : (pc[t] # "idle") ~> (pc[t] = "idle" \/ poisoned)

\* C30: an add_piece that fails, in whatever statement or in the commit, returns
\* the Database error of that statement and leaves the database as it was.
C30_AddPieceAllOrNothing ==
    [][\A t \in Callers :
        (In(t, "add_piece") /\ pc'[t] = "idle" /\ ~last'[t].res.ok)
        => /\ last'[t].res.err.kind = "Database"
           /\ last'[t].res.err.operation \in
                {"begin transaction", "prepare select statement", "query existing piece",
                 "update piece quantity", "insert new piece", "commit transaction"}
           /\ db' = db]_vars

\* add_piece failed in its commit, after the write, and the rows are the ones
\* of before.
C30_Witness ==
    /\ last["c1"].op = "add_piece"
    /\ last["c1"].res = Err(DatabaseError("commit transaction", "disk I/O error"))
    /\ budget["c1"] = MaxCalls - 1
    /\ db = StoreV2(SeedPieces)

\* The records of a list.
Records(ps) == { ps[k] : k \in DOMAIN ps }

\* A valid record: its confidence is a finite number.
Valid(p) == p.confidence # Infinity

\* Caller t's step is an import of the path its last call exported to with
\* success, in the given format.
ImportsExport(t, format) ==
    /\ last[t].op = "export_inventory"
    /\ last[t].res.ok
    /\ last[t].arg.format = format
    /\ budget'[t] < budget[t]
    /\ last'[t].op = "import_inventory"
    /\ last'[t].arg.path = last[t].arg.path

\* C22: exporting a list of records as JSON to a path with extension json and
\* importing that path gives a list of as many records, which are the records
\* exported (as a set).
C22_JsonRoundTrip ==
    [][\A t \in Callers :
        (/\ ImportsExport(t, "Json")
         /\ Extension(last[t].arg.path) = SomeExtension(ExtJson)
         /\ \A k \in DOMAIN last[t].arg.pieces : Valid(last[t].arg.pieces[k]))
        => /\ last'[t].res.ok
           /\ Len(last'[t].res.pieces) = Len(last[t].arg.pieces)
           /\ Records(last'[t].res.pieces) = Records(last[t].arg.pieces)]_vars

\* Two records, one with a quote and a backslash in a text field, came back
\* from the JSON file they were exported to.
C22_Witness ==
    /\ last["c1"].op = "import_inventory"
    /\ last["c1"].arg.path = PathJson
    /\ last["c1"].res.ok
    /\ Len(last["c1"].res.pieces) = 2
    /\ \E k \in 1..2 : \E j \in DOMAIN last["c1"].res.pieces[k].part_number :
          last["c1"].res.pieces[k].part_number[j] = "\""
    /\ files[PathJson] = ExportJson(last["c1"].res.pieces)

\* The text fields of a record.
TextFields(p) == { p.id, p.part_number, p.color, p.category }

\* Text t has one of the characters cs.
HasChar(t, cs) == \E k \in DOMAIN t : t[k] \in cs

\* No text field of the record has a comma or a line break.
Plain(p) == \A f \in TextFields(p) : ~HasChar(f, { ",", "\n", "\r" })

\* No text field of the record has a line break.
OneLine(p) == \A f \in TextFields(p) : ~HasChar(f, { "\n", "\r" })

\* What a CSV round trip is to give for the exported list ps: ps itself when
\* its records are plain, and ps without the records that have a comma when
\* each record is one line.
CsvRoundTrip(ps, res) ==
    /\ (\A k \in DOMAIN ps : Plain(ps[k])) => (res.ok /\ res.pieces = ps)
    /\ (\A k \in DOMAIN ps : OneLine(ps[k]))
       => (res.ok /\ res.pieces = SelectSeq(ps, Plain))

\* C23 as stated: exporting a list of records without comma or line break in
\* their text fields as CSV and importing the file gives the same records in
\* the same order, whatever the path; only records with the delimiter in a
\* field differ.
C23_CsvRoundTrip ==
    [][\A t \in Callers :
        ImportsExport(t, "Csv")
        => CsvRoundTrip(last[t].arg.pieces, last'[t].res)]_vars

\* C23, amended: the same for a path whose extension is not json.
C23_CsvRoundTripOfCsvPath ==
    [][\A t \in Callers :
        (ImportsExport(t, "Csv")
         /\ Extension(last[t].arg.path) # SomeExtension(ExtJson))
        => CsvRoundTrip(last[t].arg.pieces, last'[t].res)]_vars

\* Two plain records, one with an empty text field, came back from the CSV
\* file they were exported to.
C23_Witness ==
    /\ last["c1"].op = "import_inventory"
    /\ last["c1"].arg.path \in { PathCsv, PathBare }
    /\ last["c1"].res.ok
    /\ Len(last["c1"].res.pieces) = 2
    /\ \E k \in 1..2 : last["c1"].res.pieces[k].color = << >>
    /\ files[last["c1"].arg.path] = ExportCsv(last["c1"].res.pieces)

\* Caller t's step is an import of a file that is there, through the CSV arm.
ImportsCsv(t) ==
    /\ budget'[t] < budget[t]
    /\ last'[t].op = "import_inventory"
    /\ last'[t].arg.path \in DOMAIN files
    /\ Extension(last'[t].arg.path) # SomeExtension(ExtJson)

\* The lines of a CSV text after the header line.
DataLines(data) == LET ls == Lines(data) IN SubSeq(ls, 2, Len(ls))

\* C24: every line after the header of an imported CSV file gives one record
\* of the result or makes the import fail: a successful import has as many
\* records as the file has data lines.
C24_SixFieldsRequired ==
    [][\A t \in Callers :
        (ImportsCsv(t) /\ last'[t].res.ok)
        => Len(last'[t].res.pieces) = Len(DataLines(files[last'[t].arg.path]))]_vars

\* The line has six fields and its quantity is no i32.
BadQuantity(l) ==
    LET f == Split(l, ",") IN Len(f) = 6 /\ ~ParseI32(f[5]).ok

\* The line has six fields and its confidence is no f32.
BadConfidence(l) ==
    LET f == Split(l, ",") IN Len(f) = 6 /\ ~ParseF32(f[6]).ok

\* The first line of ls with a field that does not parse, 0 when there is none.
FirstBad(ls) ==
    IF \E k \in DOMAIN ls : BadQuantity(ls[k]) \/ BadConfidence(ls[k])
    THEN CHOOSE k \in DOMAIN ls :
            /\ BadQuantity(ls[k]) \/ BadConfidence(ls[k])
            /\ \A j \in 1..(k - 1) : ~(BadQuantity(ls[j]) \/ BadConfidence(ls[j]))
    ELSE 0

\* C25: when a six-field line of an imported CSV file has a quantity that is
\* no integer or a confidence that is no number, import_inventory returns an
\* error that names that field, and no records.
C25_FieldParseFailure ==
    [][\A t \in Callers :
        LET ls == DataLines(files[last'[t].arg.path])
            res == last'[t].res
        IN  (ImportsCsv(t) /\ FirstBad(ls) # 0)
            => /\ ~res.ok
               /\ "pieces" \notin DOMAIN res
               /\ res.err = Config(IF BadQuantity(ls[FirstBad(ls)])
                                   THEN "Failed to parse quantity"
                                   ELSE "Failed to parse confidence")]_vars

\* The import of a file whose first data line is valid and whose second has a
\* confidence that is no number returned the error that names confidence.
C25_Witness ==
    /\ last["c1"].op = "import_inventory"
    /\ last["c1"].arg.path = PathCsv
    /\ PathCsv \in DOMAIN files
    /\ files[PathCsv] = CsvFile(<< LineGood, LineBadConfidence >>, << "\n" >>)
    /\ last["c1"].res = Err(Config("Failed to parse confidence"))

\* The fields of a record that a backup is to bring back.
Kept(p) ==
    [id |-> p.id, part_number |-> p.part_number, color |-> p.color,
     category |-> p.category, quantity |-> p.quantity]

\* Caller t's last call was a backup and restore whose export and reset
\* succeeded, so that its import ran.
BackupRestored(t) ==
    /\ last[t].op = "backup_restore"
    /\ last[t].res.step \in { "import", "done" }

\* The import of t's backup and restore succeeded, the inventory was empty
\* between the reset and the import, and the store holds the records it held
\* before the export.
Restored(t) ==
    /\ last[t].res.ok
    /\ last[t].res.between = {}
    /\ { Kept(p) : p \in last[t].res.after } = { Kept(p) : p \in last[t].arg.before }

\* The path of t's backup has the extension json exactly when the configured
\* format is JSON, and the format can carry every record that was stored:
\* finite confidences for JSON, no comma or line break in a text field for CSV.
Restorable(t) ==
    /\ (config.export_format = "Json")
         <=> (Extension(last[t].arg.path) = SomeExtension(ExtJson))
    /\ \A p \in last[t].arg.before :
         IF config.export_format = "Json" THEN Valid(p) ELSE Plain(p)

\* C26: for either configured export format, export_inventory(path), reset()
\* and import_inventory(path) of the same path leave the store with the
\* records it held before the export (ids, part numbers, colors, categories,
\* quantities), and the inventory is empty between the reset and the import.
C26_BackupRestore ==
    \A t \in Callers : BackupRestored(t) => Restored(t)

\* C26, amended: the same, when the path has the extension json exactly when
\* the configured format is JSON, every stored confidence is finite under
\* JSON, and no stored text field has a comma or a line break under CSV.
C26_BackupRestoreOfMatchingPath ==
    \A t \in Callers : BackupRestored(t) /\ Restorable(t) => Restored(t)

\* A store of two records was backed up as CSV and restored.
C26_Witness ==
    /\ BackupRestored("c1")
    /\ Restorable("c1")
    /\ config.export_format = "Csv"
    /\ Cardinality(last["c1"].arg.before) = 2
    /\ Cardinality(db.rows) = 2

\* Caller t's step is a scan_image that returns a piece, on a store that is
\* initialized and holds no record.
ScansOnEmpty(t) ==
    /\ ScanImage(t)
    /\ Initialized(db) /\ db.hasPieces /\ db.rows = {}
    /\ pc'[t] = "idle"
    /\ last'[t].res.ok

\* C27: after scan_image succeeds on an initialized store with an empty
\* inventory, list_inventory() returns exactly one piece, and its color is the
\* color of the piece that scan_image returned.
C27_ScanRecordsDetection ==
    [][\A t \in Callers :
          ScansOnEmpty(t) =>
              LET l == FacadeListInventory(db')
              IN  /\ l.ok
                  /\ Cardinality(l.pieces) = 1
                  /\ \A p \in l.pieces : p.color = last'[t].res.piece.color]_vars

\* The row of the latest schema that holds the values of the version-1 row r
\* and confidence 1.0.
Upgraded(r) ==
    [id |-> r.id, part_number |-> r.part_number, color |-> r.color,
     category |-> r.category, quantity |-> r.quantity,
     confidence |-> DefaultConfidence]

\* C31: an init() that succeeds on a store at version 1 keeps the id,
\* part_number, color, category and quantity of every row, removes and adds
\* no row, and gives every row confidence 1.0.
C31_UpgradePreservesData ==
    [][\A t \in Callers :
        (/\ InInit(t) /\ (pc'[t] = "log" \/ (pc'[t] = "idle" /\ last'[t].res.ok))
         /\ MaxVersion(db) = 1 /\ db.hasPieces /\ ~db.hasConfidence)
        => /\ db'.rows = { Upgraded(r) : r \in db.rows }
           /\ Cardinality(db'.rows) = Cardinality(db.rows)
           /\ \A r \in db.rows : \E s \in db'.rows : RowV1(s) = r]_vars

\* init() returned from upgrading the version-1 store of two rows, which are
\* there with confidence 1.0.
C31_Witness ==
    /\ last["c1"].op = "init"
    /\ last["c1"].res.ok
    /\ last["c1"].res.version = 1
    /\ db.rows = { Upgraded(RowV1(p)) : p \in SeedPieces }
    /\ Cardinality(db.rows) = 2

\* Caller u's step ends its add_piece of the id that the other caller t has
\* just inserted into the initialized store: t's call was serialized first.
MergesAfter(u, t) ==
    /\ t # u
    /\ In(u, "add_piece") /\ pc'[u] # "run"
    /\ last[t].op = "add_piece" /\ last[t].res.ok /\ last[t].res.branch = "insert"
    /\ last[t].arg.id = cur[u].arg.id
    /\ Initialized(db)
    /\ last[t].arg \in db.rows

\* C32: callers that concurrently call add_piece with one id, absent from the
\* initialized store, all succeed in every interleaving, and the store ends
\* with one row for the id whose quantity is the sum of the submitted
\* quantities and whose other fields are those of the call serialized first.
C32_ConcurrentMerge ==
    [][\A t, u \in Callers :
        MergesAfter(u, t)
        => LET p1 == last[t].arg
               p2 == cur[u].arg
               rs == { r \in db'.rows : r.id = p1.id }
           IN  /\ pc'[u] = "idle" /\ last'[u].res.ok
               /\ ~Overflows(p1.quantity, p2.quantity)
               /\ Cardinality(rs) = 1
               /\ \A r \in rs : r = [p1 EXCEPT !.quantity = p1.quantity + p2.quantity]]_vars

\* Caller t's step is the end of its call on the Database of
\* storage/database.rs, in which the environment failed no statement: the call
\* returns, or it is an init() that has committed and goes on to its debug!.
EndsCall(t) ==
    /\ lockHolder = t
    /\ pc[t] \in { "run", "reinit_run" }
    /\ pc'[t] \in { "idle", "log" }
    /\ NoFaultNow

\* The call that ends in t's step has on the Database of db.rs, in the same
\* build and from the same store, the same outcome and leaves the same store.
\* (A reset() ends with its init(), on the store its drop left; the drop of
\* db.rs changes nothing there.)
SameOnDb(t) ==
    \A b \in Builds :
        ~b.overflow_checks
        => \E o \in { DbCall(db, cur[t], debugEnabled, b) } :
              /\ o.db = db'
              /\ IF pc'[t] = "log" THEN o.fate # "returns"
                 ELSE o.fate = "returns" /\ o.res.ok = last'[t].res.ok

\* C33: for every sequence of init, reset, add_piece, get_piece, list_pieces,
\* update_quantity and delete_piece calls the Database of db.rs and the one of
\* storage/database.rs return the same success or failure for each call and
\* end with the same piece rows and schema version; both report a failure for
\* update_quantity and delete_piece of an absent id.
C33_ImplementationsAgree ==
    [][\A t \in Callers : EndsCall(t) => SameOnDb(t)]_vars

\* Caller t's step is an ensure_initialized() that returns success.
EnsuresInitialized(t) ==
    /\ StudFinderEnsureInitialized(t)
    /\ pc'[t] = "idle"
    /\ last'[t].op = "ensure_initialized"
    /\ last'[t].res.ok

\* C34: whenever ensure_initialized() returns success on a finder that new()
\* created, the store's schema is at the latest version, and a following
\* add_piece or list_inventory does not fail for a missing table.
C34_EnsureInitialized ==
    [][\A t \in Callers :
        EnsuresInitialized(t)
        => /\ Initialized(db')
           /\ db'.hasPieces /\ db'.hasConfidence
           /\ FacadeListInventory(db').ok
           /\ \A b \in Builds, piece \in FacadePieces :
                ~HasRow(db', piece.id) => Returned(FacadeAddPiece(db', piece, b))]_vars

\* The records of the data lines k.. of a CSV file (the lines of six fields)
\* in file order, up to the first that does not parse.
RECURSIVE CsvRecords(_, _, _)
CsvRecords(lines, k, got) ==
    IF k > Len(lines) THEN [failed |-> FALSE, pieces |-> got]
    ELSE With(Split(lines[k], ","), LAMBDA f :
        IF Len(f) # 6 THEN CsvRecords(lines, k + 1, got)
        ELSE IF ~ParseI32(f[5]).ok \/ ~ParseF32(f[6]).ok
        THEN [failed |-> TRUE, pieces |-> got]
        ELSE CsvRecords(lines, k + 1,
                 Append(got, [id |-> f[1], part_number |-> f[2], color |-> f[3],
                              category |-> f[4], quantity |-> ParseI32(f[5]).value,
                              confidence |-> ParseF32(f[6]).value])))

\* The elements of a JSON array from position i on that are pieces, up to the
\* first that is not.
RECURSIVE JsonRecords(_, _, _)
JsonRecords(s, i, got) ==
    With(ParseJsonPiece(s, i), LAMBDA p :
        IF ~p.ok THEN got
        ELSE With(SkipWs(s, p.pos), LAMBDA j :
            IF At(s, j, ",") THEN JsonRecords(s, SkipWs(s, j + 1), Append(got, p.value))
            ELSE Append(got, p.value)))

\* The records of the file at path in file order up to the first that does
\* not parse, and whether there is one that does not.
FileRecords(fs, path) ==
    IF Extension(path) = SomeExtension(ExtJson)
    THEN [failed |-> ~ImportJson(fs[path]).ok,
          pieces |-> With(SkipWs(fs[path], 1), LAMBDA open :
                        IF At(fs[path], open, "[")
                        THEN JsonRecords(fs[path], SkipWs(fs[path], open + 1), << >>)
                        ELSE << >>)]
    ELSE CsvRecords(Lines(fs[path]), 2, << >>)

\* The rows after pieces[k..] have been merged into rows one by one: a piece
\* whose id is stored adds its quantity to the stored row, another is a new
\* row.  Not ok when a sum is no i32.
RECURSIVE MergeAll(_, _, _)
MergeAll(rows, pieces, k) ==
    IF k > Len(pieces) THEN [ok |-> TRUE, rows |-> rows]
    ELSE With({ r \in rows : r.id = pieces[k].id }, LAMBDA stored :
        IF stored = {} THEN MergeAll(rows \cup { pieces[k] }, pieces, k + 1)
        ELSE With(CHOOSE r \in stored : TRUE, LAMBDA r :
            IF Overflows(pieces[k].quantity, r.quantity) THEN [ok |-> FALSE, rows |-> rows]
            ELSE MergeAll((rows \ { r })
                          \cup { [r EXCEPT !.quantity = r.quantity + pieces[k].quantity] },
                          pieces, k + 1)))

\* Caller t's step is an import_inventory(path).
Imports(t, path) ==
    /\ FacadeCall(t)
    /\ pc'[t] = "idle" => last'[t].op = "import_inventory" /\ last'[t].arg.path = path
    /\ \E b \in Arithmetics : \E o \in { FacadeImport(db, files, path, b) } :
         FacadeEnd(t, "import_inventory", [path |-> path], o)
    /\ UNCHANGED files

\* The store is initialized and the file at path is there.
Importable(path) ==
    /\ Initialized(db) /\ db.hasPieces /\ db.hasConfidence
    /\ path \in DOMAIN files

\* C35: import_inventory submits the file's records one by one through
\* add_piece in file order: a record whose id is stored adds its quantity to
\* the stored one and leaves the stored other fields (a second import of the
\* file doubles the imported quantities), and when record k fails to parse
\* the call returns an error while records 1..k-1 stay committed.
C35_ImportMerges ==
    [][\A t \in Callers, path \in Paths :
        (Importable(path) /\ Imports(t, path))
        => \E sub \in { FileRecords(files, path) } :
           \E m \in { MergeAll(db.rows, sub.pieces, 1) } :
              /\ m.ok
              /\ pc'[t] = "idle"
              /\ last'[t].res.ok = ~sub.failed
              /\ db'.rows = m.rows]_vars

\* Caller t's step is an import of a file that is there.
ImportsFile(t) ==
    /\ budget'[t] < budget[t]
    /\ last'[t].op = "import_inventory"
    /\ last'[t].arg.path \in DOMAIN files

\* The file name of the path is some characters followed by ".json".
NamedJson(path) ==
    /\ Len(path) >= 6
    /\ SubSeq(path, Len(path) - 4, Len(path)) = << ".", "j", "s", "o", "n" >>
    /\ path[Len(path) - 5] # "/"

\* The text is the JSON document of a list of valid records.
JsonDocument(text) ==
    \E ps \in PieceLists :
        /\ \A k \in DOMAIN ps : Valid(ps[k])
        /\ ExportJson(ps) = text

\* C36: an import reads the file as JSON exactly when the path's extension is
\* json, whatever format the file was written in: under such a path the JSON
\* document of a list of records gives those records and any other text gives
\* a format error without records; under any other path the result is the one
\* of the CSV reading of the text.
C36_ImportDispatch ==
    [][\A t \in Callers :
        ImportsFile(t)
        => \E text \in { files[last'[t].arg.path] } :
              IF NamedJson(last'[t].arg.path)
              THEN IF JsonDocument(text)
                   THEN /\ last'[t].res.ok
                        /\ ExportJson(last'[t].res.pieces) = text
                   ELSE /\ ~last'[t].res.ok
                        /\ last'[t].res.err.kind = "Config"
                        /\ DOMAIN last'[t].res = { "ok", "err" }
              ELSE last'[t].res = ImportCsv(text)]_vars

\* A file of two records written as CSV to the path b.json was imported and
\* gave the format error of the JSON arm.
C36_Witness ==
    /\ last["c1"].op = "import_inventory"
    /\ last["c1"].arg.path = PathJson
    /\ PathJson \in DOMAIN files
    /\ files[PathJson] = ExportCsv(<< PieceSamples[1], PieceSamples[2] >>)
    /\ last["c1"].res = Err(Config("Failed to parse JSON data"))

\* Caller t's step is a call of a classifier that processed its input.
Classifies(t) ==
    /\ budget'[t] < budget[t]
    /\ last'[t].op \in { "Scanner::process_image", "Detector::process_image" }
    /\ last'[t].res.ok

\* The minimum confidence the processor of the call is configured with.
ConfiguredMinimum(call) ==
    IF call.op = "Scanner::process_image"
    THEN ScanConfig(call.arg.quality).min_confidence
    ELSE call.arg.threshold

\* The confidence the processor of the call computes for its image.
ComputedConfidence(call) ==
    IF call.op = "Scanner::process_image"
    THEN AnalyzeColor(call.arg.image, ScanConfig(call.arg.quality).color_threshold).confidence
    ELSE DetectorConfidence(call.arg.image)

\* C37: a classifier that processed its input returns no piece or one; a
\* returned piece has quantity 1, an id that no piece returned before has, and
\* a confidence not below the processor's minimum, and no piece is returned
\* when the computed confidence is below the minimum.
C37_ClassifierBoundary ==
    [][\A t \in Callers :
        Classifies(t)
        => \E ps \in { last'[t].res.pieces } :
              /\ Len(ps) <= 1
              /\ ComputedConfidence(last'[t]) < ConfiguredMinimum(last'[t]) => ps = << >>
              /\ ps # << >>
                 => /\ ps[1].quantity = 1
                    /\ ps[1].id \in Uuids \ Issued
                    /\ ps[1].confidence >= ConfiguredMinimum(last'[t])
                    /\ ps[1].confidence = ComputedConfidence(last'[t])]_vars

\* The second call of a caller was a Balanced scan of an image whose red is
\* detected with confidence 0.8, the minimum itself, and it returned a piece.
C37_Witness ==
    /\ budget["c1"] = 0
    /\ last["c1"].op = "Scanner::process_image"
    /\ last["c1"].arg = [quality |-> "Balanced", image |-> Image(200, 200, 255, 51, 0)]
    /\ last["c1"].res.ok
    /\ Len(last["c1"].res.pieces) = 1
    /\ last["c1"].res.pieces[1].color = TextRed
    /\ last["c1"].res.pieces[1].confidence = ScanConfig("Balanced").min_confidence

\* The six fields of a piece.
SixFields == { "id", "part_number", "color", "category", "quantity", "confidence" }

\* C38: list_pieces() on an initialized store, when no statement fails,
\* returns the rows stored, each with its six fields; and a list_pieces or a
\* get_piece that ends, with a result or an error, leaves every row, the
\* ledger and the schema as they were.
C38_ReadsComplete ==
    [][\A t \in Callers :
        /\ (In(t, "list_pieces") /\ pc'[t] # "run" /\ NoFaultNow /\ Initialized(db))
           => /\ pc'[t] = "idle"
              /\ last'[t].res.ok
              /\ last'[t].res.pieces = db.rows
              /\ \A p \in last'[t].res.pieces : DOMAIN p = SixFields
        /\ ((In(t, "list_pieces") \/ In(t, "get_piece")) /\ pc'[t] # "run")
           => db' = db]_vars

\* list_pieces returned the two rows of an initialized store.
C38_Witness ==
    /\ last["c1"].op = "list_pieces"
    /\ last["c1"].res.ok
    /\ Initialized(db)
    /\ Cardinality(db.rows) = 2
    /\ last["c1"].res.pieces = db.rows

====
